---- MODULE Spec2Model ----
(***************************************************************************)
(* Model of the CLICK shop API tester web UI (src/src/App.tsx): the        *)
(* scenario execution engine (runQueue), the request context builder, the  *)
(* HTTP dispatcher and the handlers that start, stop and feed a run.       *)
(*                                                                         *)
(* Text is modelled as a sequence of one-character strings, so that trim,  *)
(* Number() and String() are computed as JavaScript computes them.  A JSON *)
(* value is a record [t, n, e, s]: its type tag, its number n * 10^e and   *)
(* its text.                                                               *)
(***************************************************************************)
EXTENDS Integers, Sequences, FiniteSets, TLC

\* ------------------------------------------------------------------------
\* Bounds of the model
\* ------------------------------------------------------------------------
\* longest scenario list that is loaded or stored
MaxScenarios == 2
\* number of user events (clicks, settings edits) of one behaviour
MaxEvents == 2
\* number of edits in the scenario manager of one behaviour; a user event
\* the behaviour has not used may be spent on one more edit
MaxEdits == 2

\* ------------------------------------------------------------------------
\* Text
\* ------------------------------------------------------------------------
DigitChars == <<"0", "1", "2", "3", "4", "5", "6", "7", "8", "9">>

IsDigit(c) == \E i \in 1..10 : DigitChars[i] = c

DigitVal(c) == (CHOOSE i \in 1..10 : DigitChars[i] = c) - 1

\* WhiteSpace and LineTerminator of ECMAScript: tab, line feed, form feed,
\* carriage return and space are written as TLA+ writes them, U+00A0,
\* U+1680 and U+FEFF as themselves, and the characters that cannot stand in
\* a string of a module by their code points
WhiteSpaceChars ==
  {" ", "\t", "\n", "\f", "\r", " ", " ", "﻿",
   "U+000B", "U+00A0", "U+1680", "U+2000", "U+2001", "U+2002", "U+2003",
   "U+2004", "U+2005", "U+2006", "U+2007", "U+2008", "U+2009", "U+200A",
   "U+2028", "U+2029", "U+202F", "U+205F", "U+3000", "U+FEFF"}

\* white space as String.prototype.trim and Number() see it
IsSpace(c) == c \in WhiteSpaceChars

RECURSIVE trimStart(_)
trimStart(s) ==
  IF s = <<>> THEN <<>>
  ELSE IF IsSpace(Head(s)) THEN trimStart(Tail(s)) ELSE s

RECURSIVE trimEnd(_)
trimEnd(s) ==
  IF s = <<>> THEN <<>>
  ELSE IF IsSpace(s[Len(s)]) THEN trimEnd(SubSeq(s, 1, Len(s) - 1)) ELSE s

\* String.prototype.trim
trim(s) == trimEnd(trimStart(s))

RECURSIVE NatToStr(_)
NatToStr(n) ==
  IF n < 10 THEN <<DigitChars[n + 1]>>
  ELSE NatToStr(n \div 10) \o <<DigitChars[(n % 10) + 1]>>

\* String(n) of an integer number
NumToStr(n) == IF n < 0 THEN <<"-">> \o NatToStr(0 - n) ELSE NatToStr(n)

RECURSIVE AllDigits(_)
AllDigits(s) == s = <<>> \/ (IsDigit(Head(s)) /\ AllDigits(Tail(s)))

RECURSIVE DigitsToNat(_, _)
DigitsToNat(s, acc) ==
  IF s = <<>> THEN acc
  ELSE DigitsToNat(Tail(s), acc * 10 + DigitVal(Head(s)))

\* A number of JavaScript: NaN, an infinity (inf is its sign), or the
\* finite number v * 10^e.  An integer below 10^9 is held with e = 0;
\* any other number with a v that does not end in 0.  Mantissas have at
\* most nine significant digits.  From 10^-314 up they name different
\* doubles; below, where the doubles are the multiples of 2^-1074, a number
\* is held with the digits Number::toString writes for its double.  So
\* two numbers are equal exactly when their doubles are.
NaN == [nan |-> TRUE, inf |-> 0, v |-> 0, e |-> 0]

Infinite(sign) == [nan |-> FALSE, inf |-> sign, v |-> 0, e |-> 0]

Integer(n) == [nan |-> FALSE, inf |-> 0, v |-> n, e |-> 0]

RECURSIVE Pow10(_)
Pow10(k) == IF k = 0 THEN 1 ELSE 10 * Pow10(k - 1)

\* the number of decimal digits of a positive integer
RECURSIVE DigitCount(_)
DigitCount(n) == IF n < 10 THEN 1 ELSE 1 + DigitCount(n \div 10)

\* v * 10^e with the zeros at the end of v moved into e
RECURSIVE StripZeros(_, _)
StripZeros(v, e) ==
  IF v # 0 /\ v % 10 = 0 THEN StripZeros(v \div 10, e + 1)
  ELSE [v |-> v, e |-> e]

\* A natural number below 10^256: its 64 digits of base 10^4, lowest first
Limb == Pow10(4)
Limbs == 1..64

\* the limbs f as a tuple
Big(f) == f \o <<>>

\* a * Limb^k
BigShift(a, k) == Big([i \in Limbs |-> IF i > k THEN a[i - k] ELSE 0])

\* the carry into limb i of a + b
RECURSIVE Carry(_, _, _)
Carry(a, b, i) ==
  /\ i > 1
  /\ \/ a[i - 1] + b[i - 1] >= Limb
     \/ a[i - 1] + b[i - 1] = Limb - 1 /\ Carry(a, b, i - 1)

BigPlus(a, b) ==
  Big([i \in Limbs |->
         (a[i] + b[i] + (IF Carry(a, b, i) THEN 1 ELSE 0)) % Limb])

\* a * m for m < 10^4: the low halves of the limb products and, one limb
\* up, their high halves
BigTimes(a, m) ==
  BigPlus(Big([i \in Limbs |-> (a[i] * m) % Limb]),
          BigShift(Big([i \in Limbs |-> (a[i] * m) \div Limb]), 1))

\* a * n for any n below 2^31
BigTimesInt(a, n) ==
  BigPlus(BigPlus(BigTimes(a, n % Limb),
                  BigShift(BigTimes(a, (n \div Limb) % Limb), 1)),
          BigShift(BigTimes(a, n \div (Limb * Limb)), 2))

\* a < b: at the highest limb that differs
BigLess(a, b) ==
  \E i \in Limbs : a[i] < b[i] /\ \A j \in (i + 1)..64 : a[j] = b[j]

\* 2^738
TwoTo738 ==
  <<4944, 5627, 5472, 3279, 5316, 7680, 4563, 619, 2642, 1116, 8762, 7331,
    653, 3915, 5988, 2567, 649, 3164, 1305, 9518, 1847, 6165, 2973, 9953,
    9127, 4799, 4062, 5121, 713, 997, 8449, 5775, 5495, 7447, 5180, 6319,
    4933, 4114, 6992, 8601, 178, 6379, 7692, 6800, 2028, 5893, 6603, 7694,
    7208, 4372, 4379, 7358, 5860, 1468, 5895, 144, 0, 0, 0, 0, 0, 0, 0, 0>>

\* 5^336
FiveTo336 ==
  <<625, 8789, 8400, 6054, 5804, 5743, 5706, 2206, 364, 5173, 6353, 4501,
    8143, 4899, 3028, 2881, 53, 6086, 4462, 6228, 7577, 3812, 6433, 5377,
    2194, 7449, 5142, 8383, 5137, 6764, 8587, 8970, 3940, 5307, 7518, 6260,
    136, 7155, 7229, 7113, 7441, 7039, 172, 3652, 5945, 1632, 4249, 4676,
    4437, 9657, 3809, 6908, 4717, 8486, 8638, 1421, 1955, 3671, 714, 0, 0,
    0, 0, 0>>

\* (5^336 - 1) / 2
HalfFiveTo336 ==
  <<5312, 4394, 4200, 3027, 7902, 2871, 2853, 1103, 5182, 7586, 8176, 7250,
    9071, 2449, 6514, 6440, 26, 3043, 2231, 8114, 3788, 6906, 8216, 2688,
    6097, 3724, 7571, 9191, 2568, 8382, 4293, 4485, 6970, 2653, 3759, 3130,
    5068, 8577, 8614, 8556, 8720, 3519, 86, 6826, 2972, 5816, 2124, 7338,
    7218, 9828, 1904, 8454, 2358, 4243, 9319, 5710, 5977, 1835, 357, 0, 0,
    0, 0, 0>>

\* The subnormal doubles are the multiples k * 2^-1074.  In units of
\* 2^-1074 / 5^336 the number d * 10^q is Units(d, q), an integer for
\* q >= -336, and k * 2^-1074 is k * 5^336
Units(d, q) ==
  BigShift(BigTimes(BigTimesInt(TwoTo738, d), Pow10((q + 336) % 4)),
           (q + 336) \div 4)

\* d * 10^q < (k - 1/2) * 2^-1074; no d * 10^q is a half of a multiple
BelowHalf(d, q, k) ==
  BigLess(BigPlus(Units(d, q), HalfFiveTo336), BigTimesInt(FiveTo336, k))

\* the least k in lo..hi with d * 10^q < (k + 1/2) * 2^-1074
RECURSIVE Nearest(_, _, _, _)
Nearest(d, q, lo, hi) ==
  IF lo = hi THEN lo
  ELSE IF BelowHalf(d, q, lo + (hi - lo) \div 2 + 1)
    THEN Nearest(d, q, lo, lo + (hi - lo) \div 2)
  ELSE Nearest(d, q, lo + (hi - lo) \div 2 + 1, hi)

\* the k of the multiple of 2^-1074 nearest to d * 10^q < 10^-314
Subnormal(d, q) == Nearest(d, q, 0, 2147483645)

\* the least c with every c..d, times 10^q, nearest to k
RECURSIVE Down(_, _, _)
Down(d, q, k) ==
  IF ~BelowHalf(d - 1, q, k) THEN Down(d - 1, q, k) ELSE d

\* the greatest c with every d..c, times 10^q, nearest to k
RECURSIVE Up(_, _, _)
Up(d, q, k) ==
  IF BelowHalf(d + 1, q, k + 1) THEN Up(d + 1, q, k) ELSE d

\* Of lo..hi, the c with c * 10^q closest to k * 2^-1074, which lies
\* within half a step of 10^q of their middle
Middle(lo, hi, q, k) ==
  IF (lo + hi) % 2 = 0 THEN (lo + hi) \div 2
  ELSE IF BigLess(Units(lo + hi, q), BigTimes(BigTimesInt(FiveTo336, k), 2))
    THEN (lo + hi + 1) \div 2
  ELSE (lo + hi - 1) \div 2

\* The c * 10^q nearest to k are those around f * 10^q <= v * 10^e, for
\* c from lo to hi
Candidates(f, q, k) ==
  [lo |-> IF BelowHalf(f, q, k) THEN f + 1 ELSE Down(f, q, k),
   hi |-> IF BelowHalf(f + 1, q, k + 1) THEN Up(f + 1, q, k) ELSE f]

\* x within from..to
Clamped(x, from, to) == IF x < from THEN from ELSE IF x > to THEN to ELSE x

\* Number::toString's digits of k * 2^-1074, the double nearest to
\* v * 10^e: as few digits n as tell it from its neighbours and, of the
\* decimals of n digits that do, the closest
RECURSIVE Shortest(_, _, _, _)
Digits(c, v, e, k, n) ==
  IF c.lo <= Pow10(n) /\ c.hi >= Pow10(n - 1) /\ c.lo <= c.hi
    THEN StripZeros(Clamped(Middle(c.lo, c.hi, e + DigitCount(v) - n, k),
                            Pow10(n - 1), Pow10(n)),
                    e + DigitCount(v) - n)
  ELSE Shortest(v, e, k, n + 1)

Shortest(v, e, k, n) ==
  Digits(Candidates(v \div Pow10(DigitCount(v) - n),
                    e + DigitCount(v) - n, k), v, e, k, n)

\* the number x.v * 10^x.e
Written(x) == [nan |-> FALSE, inf |-> 0, v |-> x.v, e |-> x.e]

\* the double k * 2^-1074 nearest to v * 10^e
Nearby(v, e, k) == IF k = 0 THEN Integer(0) ELSE Written(Shortest(v, e, k, 1))

\* the double nearest to v * 10^e, v > 0 without a zero at its end: above
\* 1.7976931348623158e308 it is Infinity, below 10^-314 it is a multiple
\* of 2^-1074, which is 0 below 2.4703282292062328e-324
Rounded(v, e) ==
  LET top == DigitCount(v) + e - 1
      lead == v * Pow10(9 - DigitCount(v))
  IN  IF top > 308 \/ (top = 308 /\ lead >= 179769314) THEN Infinite(1)
      ELSE IF top < -324 THEN Integer(0)
      ELSE IF top < -314 THEN Nearby(v, e, Subnormal(v, e))
      ELSE IF e > 0 /\ top < 9 THEN Integer(v * Pow10(e))
      ELSE [nan |-> FALSE, inf |-> 0, v |-> v, e |-> e]

\* the number v * 10^e, v >= 0
Finite(v, e) ==
  IF v = 0 THEN Integer(0)
  ELSE Rounded(StripZeros(v, e).v, StripZeros(v, e).e)

Negated(x) == [x EXCEPT !.inf = 0 - @, !.v = 0 - @]

\* the position of the first character of s that is in set, 0 if none
RECURSIVE IndexOf(_, _, _)
IndexOf(s, set, i) ==
  IF i > Len(s) THEN 0
  ELSE IF s[i] \in set THEN i ELSE IndexOf(s, set, i + 1)

\* the digits of the radixes up to 16: their characters and values
HexDigits ==
  [c \in {"0", "1", "2", "3", "4", "5", "6", "7", "8", "9", "a", "b", "c",
          "d", "e", "f", "A", "B", "C", "D", "E", "F"} |->
     IF IsDigit(c) THEN DigitVal(c)
     ELSE CASE c \in {"a", "A"} -> 10 [] c \in {"b", "B"} -> 11
            [] c \in {"c", "C"} -> 12 [] c \in {"d", "D"} -> 13
            [] c \in {"e", "E"} -> 14 [] OTHER -> 15]

IsRadixDigit(c, radix) ==
  c \in DOMAIN HexDigits /\ HexDigits[c] < radix

RECURSIVE AllRadixDigits(_, _)
AllRadixDigits(s, radix) ==
  s = <<>> \/ (IsRadixDigit(Head(s), radix)
               /\ AllRadixDigits(Tail(s), radix))

RECURSIVE RadixToNat(_, _, _)
RadixToNat(s, radix, acc) ==
  IF s = <<>> THEN acc
  ELSE RadixToNat(Tail(s), radix, acc * radix + HexDigits[Head(s)])

\* NonDecimalIntegerLiteral: 0x, 0o or 0b and digits of that radix
RadixOf(t) ==
  IF Len(t) < 2 \/ t[1] # "0" THEN 0
  ELSE CASE t[2] \in {"x", "X"} -> 16 [] t[2] \in {"o", "O"} -> 8
         [] t[2] \in {"b", "B"} -> 2 [] OTHER -> 0

\* ExponentPart after its e: an optionally signed run of digits
ExponentOf(t) ==
  LET signed == t # <<>> /\ Head(t) \in {"-", "+"}
      digits == IF signed THEN Tail(t) ELSE t
  IN  IF digits = <<>> \/ ~AllDigits(digits) THEN [nan |-> TRUE, v |-> 0]
      ELSE [nan |-> FALSE,
            v |-> IF signed /\ Head(t) = "-" THEN 0 - DigitsToNat(digits, 0)
                  ELSE DigitsToNat(digits, 0)]

\* StrUnsignedDecimalLiteral: Infinity, or digits with an optional point
\* and an optional exponent
UnsignedDecimal(t) ==
  LET ePos == IndexOf(t, {"e", "E"}, 1)
      mantissa == IF ePos = 0 THEN t ELSE SubSeq(t, 1, ePos - 1)
      exponent == IF ePos = 0 THEN [nan |-> FALSE, v |-> 0]
                  ELSE ExponentOf(SubSeq(t, ePos + 1, Len(t)))
      dot == IndexOf(mantissa, {"."}, 1)
      whole == IF dot = 0 THEN mantissa ELSE SubSeq(mantissa, 1, dot - 1)
      fraction == IF dot = 0 THEN <<>>
                  ELSE SubSeq(mantissa, dot + 1, Len(mantissa))
  IN  IF t = <<"I", "n", "f", "i", "n", "i", "t", "y">> THEN Infinite(1)
      ELSE IF exponent.nan \/ (whole = <<>> /\ fraction = <<>>)
              \/ ~AllDigits(whole) \/ ~AllDigits(fraction)
        THEN NaN
      ELSE Finite(DigitsToNat(whole \o fraction, 0),
                  exponent.v - Len(fraction))

\* Number(s) of a text (StringToNumber): white space is trimmed, the empty
\* text is 0, then a literal of radix 16, 8 or 2, or an optionally signed
\* decimal literal; anything else is NaN
StrToNumber(s) ==
  LET t == trim(s)
      signed == t # <<>> /\ Head(t) \in {"-", "+"}
      body == IF signed THEN Tail(t) ELSE t
  IN  IF t = <<>> THEN Integer(0)
      ELSE IF RadixOf(t) # 0
        THEN IF Len(t) > 2 /\ AllRadixDigits(SubSeq(t, 3, Len(t)), RadixOf(t))
               THEN Integer(RadixToNat(SubSeq(t, 3, Len(t)), RadixOf(t), 0))
               ELSE NaN
      ELSE IF signed /\ Head(t) = "-" THEN Negated(UnsignedDecimal(body))
      ELSE UnsignedDecimal(body)

\* ------------------------------------------------------------------------
\* JSON values
\* ------------------------------------------------------------------------
Undef == [t |-> "undef", n |-> 0, e |-> 0, s |-> <<>>]
Null == [t |-> "null", n |-> 0, e |-> 0, s |-> <<>>]
\* an integer number
Num(n) == [t |-> "num", n |-> n, e |-> 0, s |-> <<>>]
\* the finite number n * 10^e
Dec(n, e) == [t |-> "num", n |-> n, e |-> e, s |-> <<>>]
\* a number that is not finite (JSON.parse("1e999")); n is its sign
Inf == [t |-> "inf", n |-> 1, e |-> 0, s |-> <<>>]
NegInf == [t |-> "inf", n |-> -1, e |-> 0, s |-> <<>>]
\* the number NaN (Number("x")); no JSON text parses to it
NotANumber == [t |-> "nan", n |-> 0, e |-> 0, s |-> <<>>]
Str(s) == [t |-> "str", n |-> 0, e |-> 0, s |-> s]
Bool(b) == [t |-> "bool", n |-> IF b THEN 1 ELSE 0, e |-> 0, s |-> <<>>]

\* a number as a value
NumberValue(x) ==
  IF x.nan THEN NotANumber
  ELSE IF x.inf # 0 THEN [Inf EXCEPT !.n = x.inf]
  ELSE Dec(x.v, x.e)

\* the value of a number however it is written: n * 10^e with the zeros at
\* the end of n moved into e, an integer below 10^9 with e = 0 (so 10^9 is
\* 1 * 10^9 whether it was written 1000000000 or 1e9)
Canonical(value) ==
  IF value.t # "num" THEN value
  ELSE IF value.n < 0 THEN NumberValue(Negated(Finite(0 - value.n, value.e)))
  ELSE NumberValue(Finite(value.n, value.e))

\* a === b of two values: numbers by their value, NaN equal to nothing
StrictEquals(a, b) ==
  a.t # "nan" /\ b.t # "nan" /\ Canonical(a) = Canonical(b)

\* JavaScript truthiness, as `||`, `!` and `if` use it
Truthy(v) ==
  CASE v.t = "str" -> v.s # <<>>
    [] v.t = "num" -> v.n # 0
    [] v.t = "bool" -> v.n = 1
    [] v.t = "inf" -> TRUE
    [] OTHER -> FALSE

\* a run of k zeros
Zeros(k) == [i \in 1..k |-> "0"]

\* Number::toString of the positive number digits * 10^e: plain digits up
\* to 21 places, a leading "0." down to 1e-6, the exponent form otherwise
PositiveToStr(digits, n) ==
  IF Len(digits) <= n /\ n <= 21 THEN digits \o Zeros(n - Len(digits))
  ELSE IF 0 < n /\ n <= 21
    THEN SubSeq(digits, 1, n) \o <<".">>
         \o SubSeq(digits, n + 1, Len(digits))
  ELSE IF -6 < n /\ n <= 0 THEN <<"0", ".">> \o Zeros(0 - n) \o digits
  ELSE <<Head(digits)>>
       \o (IF Len(digits) = 1 THEN <<>> ELSE <<".">> \o Tail(digits))
       \o <<"e", IF n >= 1 THEN "+" ELSE "-">>
       \o NatToStr(IF n >= 1 THEN n - 1 ELSE 1 - n)

\* String(x) of the finite number n * 10^e
DecToStr(n, e) ==
  IF e = 0 THEN NumToStr(n)
  ELSE (IF n < 0 THEN <<"-">> ELSE <<>>)
       \o PositiveToStr(NatToStr(IF n < 0 THEN 0 - n ELSE n),
                        DigitCount(IF n < 0 THEN 0 - n ELSE n) + e)

\* String(v)
ToStr(v) ==
  CASE v.t = "str" -> v.s
    [] v.t = "num" -> DecToStr(v.n, v.e)
    [] v.t = "inf" -> (IF v.n < 0 THEN <<"-">> ELSE <<>>)
                      \o <<"I", "n", "f", "i", "n", "i", "t", "y">>
    [] v.t = "nan" -> <<"N", "a", "N">>
    [] v.t = "bool" -> IF v.n = 1 THEN <<"t", "r", "u", "e">>
                       ELSE <<"f", "a", "l", "s", "e">>
    [] v.t = "null" -> <<"n", "u", "l", "l">>
    [] OTHER -> <<"u", "n", "d", "e", "f", "i", "n", "e", "d">>

\* a || b on texts
OrStr(a, b) == IF a # <<>> THEN a ELSE b

\* the text of a payload field, "" when the field is absent
FieldStr(v) == IF v.t = "str" THEN v.s ELSE <<>>

\* ------------------------------------------------------------------------
\* Records of src/lib/types.ts
\* ------------------------------------------------------------------------
\* the fields of a post mapping and of an outbound payload
Keys ==
  {"click_trans_id", "service_id", "merchant_trans_id", "merchant_prepare_id",
   "amount", "action", "error", "error_note", "sign_time", "sign_string",
   "click_paydoc_id", "merchant_user_id"}

\* the fields of an ApiResponse the engine reads
RespKeys == {"success", "error", "message", "merchant_prepare_id"}

\* a mapping with no field
NoFields == [k \in Keys |-> Undef]

NoRespFields == [k \in RespKeys |-> Undef]

\* response: undefined, null, or a parsed object with its fields
RespUndef ==
  [t |-> "undef", arr |-> FALSE, f |-> NoRespFields, items |-> <<>>]
RespNull ==
  [t |-> "null", arr |-> FALSE, f |-> NoRespFields, items |-> <<>>]
RespObj(f) == [t |-> "obj", arr |-> FALSE, f |-> f, items |-> <<>>]
\* an array with its elements is an object none of whose fields the engine
\* finds
RespArr(items) ==
  [t |-> "obj", arr |-> TRUE, f |-> NoRespFields, items |-> items]

\* payload: undefined or a mapping of texts
PayloadUndef == [set |-> FALSE, f |-> NoFields]
PayloadOf(f) == [set |-> TRUE, f |-> f]

\* ------------------------------------------------------------------------
\* Replies of an endpoint
\* ------------------------------------------------------------------------
\* The body of a reply stands for its raw text: kind says what JSON.parse
\* makes of it ("object" and "array" parse to a non-null object, "scalar"
\* to a number, string, boolean or null, "text" and "empty" do not parse).
Body(kind, f) == [kind |-> kind, f |-> f, items |-> <<>>]
\* the text of an array of values; Body("array", NoRespFields) is "[]"
ArrayBody(items) ==
  [kind |-> "array", f |-> NoRespFields, items |-> items]
NoBody == Body("empty", NoRespFields)

\* a parser that takes every body for an object
parseApiResponse_anyIsObject(raw) == RespObj(raw.f)

\* parseApiResponse: the parsed object, or null
parseApiResponse(raw) ==
  IF raw.kind = "object" THEN RespObj(raw.f)
  ELSE IF raw.kind = "array" THEN RespArr(raw.items)
  ELSE RespNull

\* what fetch() gives: a rejection, or a reply with its status and body
NetFail == [net |-> "fail", status |-> 0, body |-> NoBody]
Reply(status, body) == [net |-> "reply", status |-> status, body |-> body]

\* a reply whose status arrived and whose body could not be read:
\* response.text() rejects
BodyFail(status) == [net |-> "body", status |-> status, body |-> NoBody]

\* Response.ok
IsOk(status) == status >= 200 /\ status <= 299

\* ------------------------------------------------------------------------
\* Error messages: the kind of the sentence and the values it quotes
\* ------------------------------------------------------------------------
Msg(kind, status, expected, received, text) ==
  [kind |-> kind, status |-> status, expected |-> expected,
   received |-> received, text |-> text]

\* errorMessage undefined
NoMsg == Msg("none", 0, Undef, Undef, Undef)

\* 'Сервер вернул success = false.'
SuccessFalseText == Str(<<"s", "u", "c", "c", "e", "s", "s", "=", "f">>)

\* buildHttpStatusErrorMessage: the status and, when it is a text with
\* something in it, the server's message
buildHttpStatusErrorMessage(status, raw, serverMessage) ==
  Msg("http", status, Undef, Undef,
      IF serverMessage.t = "str" /\ trim(serverMessage.s) # <<>>
        THEN Str(trim(serverMessage.s)) ELSE Undef)

\* ------------------------------------------------------------------------
\* HTTP dispatcher
\* ------------------------------------------------------------------------
\* the result of sendScenarioRequest: a raised error with its message, or
\* the RequestResult
Thrown(msg) ==
  [threw |-> TRUE, message |-> msg, json |-> RespNull, raw |-> NoBody,
   status |-> 0]
Result(json, raw, status) ==
  [threw |-> FALSE, message |-> NoMsg, json |-> json, raw |-> raw,
   status |-> status]

\* a dispatcher that does not look at Response.ok
sendScenarioRequest_ignoresStatus(url, reply) ==
  IF url = <<>> THEN Thrown(Msg("urlEmpty", 0, Undef, Undef, Undef))
  ELSE IF reply.net = "fail" THEN Thrown(Msg("network", 0, Undef, Undef, Undef))
  ELSE Result(parseApiResponse(reply.body), reply.body, reply.status)

\* a dispatcher that raises only when no reply can be read
sendScenarioRequest_returnsFailures(url, reply) ==
  IF url = <<>> THEN Thrown(Msg("urlEmpty", 0, Undef, Undef, Undef))
  ELSE IF reply.net = "fail" THEN Thrown(Msg("network", 0, Undef, Undef, Undef))
  ELSE IF reply.net = "body" THEN Thrown(Msg("body", 0, Undef, Undef, Undef))
  ELSE Result(parseApiResponse(reply.body), reply.body, reply.status)

\* sendScenarioRequest, given what the network answers
sendScenarioRequest(url, reply) ==
  IF url = <<>> THEN Thrown(Msg("urlEmpty", 0, Undef, Undef, Undef))
  ELSE IF reply.net = "fail" THEN Thrown(Msg("network", 0, Undef, Undef, Undef))
  ELSE IF reply.net = "body" THEN Thrown(Msg("body", 0, Undef, Undef, Undef))
  ELSE LET parsed == parseApiResponse(reply.body)
           serverMessage ==
             IF parsed.t = "obj" /\ parsed.f["message"].t = "str"
               THEN parsed.f["message"] ELSE Undef
       IN  IF ~IsOk(reply.status)
             THEN Thrown(buildHttpStatusErrorMessage(
                           reply.status, reply.body, serverMessage))
             ELSE Result(parsed, reply.body, reply.status)

\* ------------------------------------------------------------------------
\* Outcome classification (runQueue, the body of its try block)
\* ------------------------------------------------------------------------
\* what normalizeErrorCode returns: null, or a number (an integer, another
\* finite number, or an infinity read from a text)
NoCode == [null |-> TRUE, number |-> Null]

Code(number) == [null |-> FALSE, number |-> number]

\* normalizeErrorCode without its coercion of numeric strings
normalizeErrorCode_numbersOnly(value) ==
  IF value.t = "num" THEN Code(Canonical(value)) ELSE NoCode

\* normalizeErrorCode without its check of blank texts, which Number() reads
\* as 0
normalizeErrorCode_blankIsZero(value) ==
  IF value.t = "num" THEN Code(Canonical(value))
  ELSE IF value.t = "str" /\ ~StrToNumber(value.s).nan
    THEN Code(NumberValue(StrToNumber(value.s)))
  ELSE NoCode

\* normalizeErrorCode: the number, or null
normalizeErrorCode(value) ==
  IF value.t = "num" THEN Code(Canonical(value))
  ELSE IF value.t = "str" /\ trim(value.s) # <<>>
            /\ ~StrToNumber(value.s).nan
    THEN Code(NumberValue(StrToNumber(value.s)))
  ELSE NoCode

\* the first two checks, success: false not looked at
firstVerdict_ignoresSuccess(out) ==
  IF out.json.t # "obj"
    THEN [status |-> "error",
          msg |-> Msg("notJson", out.status, Undef, Undef, Undef)]
  ELSE [status |-> "success", msg |-> NoMsg]

\* the verdict of the first two checks of the try block: the response is an
\* object, and its success is not false
\* a first verdict that takes the message of the response as it is
firstVerdict_rawMessage(out) ==
  IF out.json.t # "obj"
    THEN [status |-> "error",
          msg |-> Msg("notJson", out.status, Undef, Undef, Undef)]
  ELSE IF out.json.f["success"] = Bool(FALSE)
    THEN [status |-> "error",
          msg |-> Msg("successFalse", 0, Undef, Undef, out.json.f["message"])]
  ELSE [status |-> "success", msg |-> NoMsg]

firstVerdict(out) ==
  IF out.json.t # "obj"
    THEN [status |-> "error",
          msg |-> Msg("notJson", out.status, Undef, Undef, Undef)]
  ELSE IF out.json.f["success"] = Bool(FALSE)
    THEN [status |-> "error",
          msg |-> Msg("successFalse", 0, Undef, Undef,
                      IF Truthy(out.json.f["message"])
                        THEN out.json.f["message"]
                        ELSE SuccessFalseText)]
  ELSE [status |-> "success", msg |-> NoMsg]

\* the check of the code, leaving an earlier error message in place
codeVerdict_keepsFirst(expected, out, numericError, first) ==
  IF out.json.t # "obj" \/ first.status = "error" THEN first
  ELSE IF numericError.null
    THEN [status |-> "error", msg |-> Msg("noCode", 0, Undef, Undef, Undef)]
  ELSE IF ~StrictEquals(numericError.number, expected)
    THEN [status |-> "error",
          msg |-> Msg("mismatch", 0, expected, out.json.f["error"], Undef)]
  ELSE first

\* the verdict after the check of the code of an object response
codeVerdict(expected, out, numericError, first) ==
  IF out.json.t # "obj" THEN first
  ELSE IF numericError.null
    THEN [status |-> "error", msg |-> Msg("noCode", 0, Undef, Undef, Undef)]
  ELSE IF ~StrictEquals(numericError.number, expected)
    THEN [status |-> "error",
          msg |-> Msg("mismatch", 0, expected, out.json.f["error"], Undef)]
  ELSE first

\* what runQueue records when sendScenarioRequest returned out
recordOf(out, numericError, verdict) ==
  [status |-> verdict.status, errorMessage |-> verdict.msg,
   actualErrorCode |->
     IF out.json.t # "obj" THEN Null
     ELSE IF numericError.null
       THEN IF out.json.f["error"].t = "undef" THEN Null
            ELSE out.json.f["error"]
     ELSE numericError.number,
   response |-> out.json, rawResponse |-> out.raw]

classifyResult(expected, out, numericError) ==
  recordOf(out, numericError,
           codeVerdict(expected, out, numericError, firstVerdict(out)))

\* status, errorMessage, actualErrorCode, response and rawResponse that
\* runQueue records for a scenario, from what sendScenarioRequest gave
Classify(expected, out) ==
  IF out.threw
    THEN [status |-> "error", errorMessage |-> out.message,
          actualErrorCode |-> Null, response |-> RespNull,
          rawResponse |-> NoBody]
    ELSE classifyResult(expected, out,
                        normalizeErrorCode(out.json.f["error"]))

\* ------------------------------------------------------------------------
\* Template resolver
\* ------------------------------------------------------------------------
\* a value a path walks through: a mapping (its fields in f), an array
\* (its elements in items), or a plain value v
Node(t, f, v) == [t |-> t, f |-> f, v |-> v, items |-> <<>>]
UndefNode == Node("val", NoFields, Undef)
ValNode(v) == Node("val", NoFields, v)
ObjNode(f) == Node("obj", f, Undef)
ArrNode(items) ==
  [t |-> "arr", f |-> NoFields, v |-> Undef, items |-> items]

\* a function (its name in v), Object.prototype and Array.prototype, which
\* a path reaches through the names every object inherits
FnNode(name) == Node("fn", NoFields, Str(name))
ObjectPrototype == Node("oproto", NoFields, Undef)
ArrayPrototype == Node("aproto", NoFields, Undef)

tConstructor ==
    <<"c", "o", "n", "s", "t", "r", "u", "c", "t", "o", "r">>
tProto ==
    <<"_", "_", "p", "r", "o", "t", "o", "_", "_">>
tLength == <<"l", "e", "n", "g", "t", "h">>
tObject == <<"O", "b", "j", "e", "c", "t">>
tArray == <<"A", "r", "r", "a", "y">>

\* the names of the functions of Object.prototype, constructor apart
ObjectPrototypeFunctions ==
  {<<"t", "o", "S", "t", "r", "i", "n", "g">>,
   <<"v", "a", "l", "u", "e", "O", "f">>,
   <<"h", "a", "s", "O", "w", "n", "P", "r", "o", "p", "e", "r", "t", "y">>,
   <<"i", "s", "P", "r", "o", "t", "o", "t", "y", "p", "e", "O", "f">>,
   <<"p", "r", "o", "p", "e", "r", "t", "y", "I", "s", "E", "n", "u", "m",
     "e", "r", "a", "b", "l", "e">>,
   <<"t", "o", "L", "o", "c", "a", "l", "e", "S", "t", "r", "i", "n", "g">>,
   <<"_", "_", "d", "e", "f", "i", "n", "e", "G", "e", "t", "t", "e", "r",
     "_", "_">>,
   <<"_", "_", "d", "e", "f", "i", "n", "e", "S", "e", "t", "t", "e", "r",
     "_", "_">>,
   <<"_", "_", "l", "o", "o", "k", "u", "p", "G", "e", "t", "t", "e", "r",
     "_", "_">>,
   <<"_", "_", "l", "o", "o", "k", "u", "p", "S", "e", "t", "t", "e", "r",
     "_", "_">>}

\* the names of the functions of Array.prototype (ECMAScript 2023),
\* constructor apart
ArrayPrototypeFunctions ==
  {<<"a", "t">>,
   <<"c", "o", "n", "c", "a", "t">>,
   <<"c", "o", "p", "y", "W", "i", "t", "h", "i", "n">>,
   <<"e", "n", "t", "r", "i", "e", "s">>,
   <<"e", "v", "e", "r", "y">>,
   <<"f", "i", "l", "l">>,
   <<"f", "i", "l", "t", "e", "r">>,
   <<"f", "i", "n", "d">>,
   <<"f", "i", "n", "d", "I", "n", "d", "e", "x">>,
   <<"f", "i", "n", "d", "L", "a", "s", "t">>,
   <<"f", "i", "n", "d", "L", "a", "s", "t", "I", "n", "d", "e", "x">>,
   <<"f", "l", "a", "t">>,
   <<"f", "l", "a", "t", "M", "a", "p">>,
   <<"f", "o", "r", "E", "a", "c", "h">>,
   <<"i", "n", "c", "l", "u", "d", "e", "s">>,
   <<"i", "n", "d", "e", "x", "O", "f">>,
   <<"j", "o", "i", "n">>,
   <<"k", "e", "y", "s">>,
   <<"l", "a", "s", "t", "I", "n", "d", "e", "x", "O", "f">>,
   <<"m", "a", "p">>,
   <<"p", "o", "p">>,
   <<"p", "u", "s", "h">>,
   <<"r", "e", "d", "u", "c", "e">>,
   <<"r", "e", "d", "u", "c", "e", "R", "i", "g", "h", "t">>,
   <<"r", "e", "v", "e", "r", "s", "e">>,
   <<"s", "h", "i", "f", "t">>,
   <<"s", "l", "i", "c", "e">>,
   <<"s", "o", "m", "e">>,
   <<"s", "o", "r", "t">>,
   <<"s", "p", "l", "i", "c", "e">>,
   <<"t", "o", "L", "o", "c", "a", "l", "e", "S", "t", "r", "i",
     "n", "g">>,
   <<"t", "o", "R", "e", "v", "e", "r", "s", "e", "d">>,
   <<"t", "o", "S", "o", "r", "t", "e", "d">>,
   <<"t", "o", "S", "p", "l", "i", "c", "e", "d">>,
   <<"t", "o", "S", "t", "r", "i", "n", "g">>,
   <<"u", "n", "s", "h", "i", "f", "t">>,
   <<"v", "a", "l", "u", "e", "s">>,
   <<"w", "i", "t", "h">>}

\* String(f) of a built-in function
FunctionText(name) ==
  <<"f", "u", "n", "c", "t", "i", "o", "n", " ">> \o name
  \o <<"(", ")", " ", "{", " ", "[", "n", "a", "t", "i", "v", "e", " ", "c",
       "o", "d", "e", "]", " ", "}">>

\* Array.prototype.join(","): null and undefined are written as ''
RECURSIVE join(_)
join(items) ==
  IF items = <<>> THEN <<>>
  ELSE (IF Head(items).t \in {"undef", "null"} THEN <<>>
        ELSE ToStr(Head(items)))
       \o (IF Len(items) = 1 THEN <<>> ELSE <<",">> \o join(Tail(items)))

\* String(resolved), with undefined and null giving ''; Array.prototype
\* is an array without elements
NodeText(n) ==
  CASE n.t \in {"obj", "oproto"} ->
         <<"[", "o", "b", "j", "e", "c", "t", " ", "O", "b", "j", "e", "c",
           "t", "]">>
    [] n.t \in {"arr", "aproto"} -> join(n.items)
    [] n.t = "fn" -> FunctionText(n.v.s)
    [] n.v.t \in {"undef", "null"} -> <<>>
    [] OTHER -> ToStr(n.v)

\* acc[segment] for a name that is not a field or an element of acc
\* itself: its length if it is an array, or what it inherits from
\* Array.prototype and Object.prototype
inherited(acc, segment) ==
  IF segment = tProto
    THEN CASE acc.t = "obj" -> ObjectPrototype
           [] acc.t = "arr" -> ArrayPrototype
           [] acc.t = "aproto" -> ObjectPrototype
           [] OTHER -> ValNode(Null)
  ELSE IF segment = tConstructor
    THEN FnNode(IF acc.t \in {"arr", "aproto"} THEN tArray ELSE tObject)
  ELSE IF segment = tLength /\ acc.t \in {"arr", "aproto"}
    THEN ValNode(Num(Len(acc.items)))
  ELSE IF acc.t \in {"arr", "aproto"} /\ segment \in ArrayPrototypeFunctions
    THEN FnNode(segment)
  ELSE IF segment \in ObjectPrototypeFunctions THEN FnNode(segment)
  ELSE UndefNode

\* segment is the canonical text of an index of items
IsIndexOf(segment, items) ==
  \E i \in 1..Len(items) : segment = NatToStr(i - 1)

\* the spelling of each field name
KeyText ==
  [click_trans_id |->
     <<"c", "l", "i", "c", "k", "_", "t", "r", "a", "n", "s", "_", "i",
     "d">>,
   service_id |->
     <<"s", "e", "r", "v", "i", "c", "e", "_", "i", "d">>,
   merchant_trans_id |->
     <<"m", "e", "r", "c", "h", "a", "n", "t", "_", "t", "r", "a", "n",
     "s", "_", "i", "d">>,
   merchant_prepare_id |->
     <<"m", "e", "r", "c", "h", "a", "n", "t", "_", "p", "r", "e", "p",
     "a", "r", "e", "_", "i", "d">>,
   amount |->
     <<"a", "m", "o", "u", "n", "t">>,
   action |->
     <<"a", "c", "t", "i", "o", "n">>,
   error |->
     <<"e", "r", "r", "o", "r">>,
   error_note |->
     <<"e", "r", "r", "o", "r", "_", "n", "o", "t", "e">>,
   sign_time |->
     <<"s", "i", "g", "n", "_", "t", "i", "m", "e">>,
   sign_string |->
     <<"s", "i", "g", "n", "_", "s", "t", "r", "i", "n", "g">>,
   click_paydoc_id |->
     <<"c", "l", "i", "c", "k", "_", "p", "a", "y", "d", "o", "c", "_",
     "i", "d">>,
   merchant_user_id |->
     <<"m", "e", "r", "c", "h", "a", "n", "t", "_", "u", "s", "e", "r",
     "_", "i", "d">>,
   success |->
     <<"s", "u", "c", "c", "e", "s", "s">>,
   message |->
     <<"m", "e", "s", "s", "a", "g", "e">>]

\* getByPath: an empty segment keeps the value, a segment indexes an object
\* (a field or an element of its own, or a name it inherits), anything else
\* gives undefined
RECURSIVE getByPath(_, _)
getByPath(data, path) ==
  IF path = <<>> THEN data
  ELSE LET segment == Head(path)
           next ==
             IF segment = <<>> THEN data
             ELSE IF data.t = "obj"
               THEN IF \E k \in DOMAIN data.f :
                         KeyText[k] = segment /\ data.f[k].t # "undef"
                      THEN ValNode(data.f[CHOOSE k \in DOMAIN data.f :
                                            KeyText[k] = segment])
                      ELSE inherited(data, segment)
             ELSE IF data.t = "arr" /\ IsIndexOf(segment, data.items)
               THEN ValNode(data.items[DigitsToNat(segment, 0) + 1])
             ELSE IF data.t \in {"arr", "oproto", "aproto"}
               THEN inherited(data, segment)
             ELSE UndefNode
       IN  getByPath(next, Tail(path))

\* String.prototype.split on one character
RECURSIVE SplitAcc(_, _, _)
SplitAcc(s, sep, cur) ==
  IF s = <<>> THEN <<cur>>
  ELSE IF Head(s) = sep THEN <<cur>> \o SplitAcc(Tail(s), sep, <<>>)
  ELSE SplitAcc(Tail(s), sep, Append(cur, Head(s)))

split(s, sep) == SplitAcc(s, sep, <<>>)

tScenario == <<"s", "c", "e", "n", "a", "r", "i", "o">>
tResponse == <<"r", "e", "s", "p", "o", "n", "s", "e">>
tRequest == <<"r", "e", "q", "u", "e", "s", "t">>
tPost == <<"p", "o", "s", "t">>

\* a resolver whose short form leaves the first segment out of the path
resolveExpression_shortSkipsThird(rawExpression, references) ==
  LET expression == trim(rawExpression)
      parts == split(expression, ".")
  IN  IF Len(parts) < 3 THEN <<>>
      ELSE
        LET scope == parts[1]
            isScenario == scope = tScenario
            isShort == scope \in {tResponse, tRequest, tPost}
            clickTransId == parts[2]
            source == IF isScenario THEN parts[3] ELSE scope
            path == SubSeq(parts, 4, Len(parts))
        IN  IF ~(isScenario \/ isShort) THEN <<>>
            ELSE IF clickTransId \notin DOMAIN references THEN <<>>
            ELSE
              LET entry == references[clickTransId]
                  sourceData ==
                    IF source = tResponse
                      THEN IF entry.response.t = "obj"
                             THEN IF entry.response.arr
                                    THEN ArrNode(entry.response.items)
                                    ELSE ObjNode(entry.response.f)
                             ELSE UndefNode
                    ELSE IF source = tRequest
                      THEN IF entry.request.set THEN ObjNode(entry.request.f)
                           ELSE UndefNode
                    ELSE IF source = tPost THEN ObjNode(entry.post)
                    ELSE UndefNode
              IN  NodeText(getByPath(sourceData, path))

\* the callback of resolveTemplateValue: the text that replaces one
\* placeholder whose inner text is rawExpression
resolveExpression(rawExpression, references) ==
  LET expression == trim(rawExpression)
      parts == split(expression, ".")
  IN  IF Len(parts) < 3 THEN <<>>
      ELSE
        LET scope == parts[1]
            isScenario == scope = tScenario
            isShort == scope \in {tResponse, tRequest, tPost}
            clickTransId == parts[2]
            source == IF isScenario THEN parts[3] ELSE scope
            path == IF isScenario THEN SubSeq(parts, 4, Len(parts))
                    ELSE SubSeq(parts, 3, Len(parts))
        IN  IF ~(isScenario \/ isShort) THEN <<>>
            ELSE IF clickTransId \notin DOMAIN references THEN <<>>
            ELSE
              LET entry == references[clickTransId]
                  sourceData ==
                    IF source = tResponse
                      THEN IF entry.response.t = "obj"
                             THEN IF entry.response.arr
                                    THEN ArrNode(entry.response.items)
                                    ELSE ObjNode(entry.response.f)
                             ELSE UndefNode
                    ELSE IF source = tRequest
                      THEN IF entry.request.set THEN ObjNode(entry.request.f)
                           ELSE UndefNode
                    ELSE IF source = tPost THEN ObjNode(entry.post)
                    ELSE UndefNode
              IN  NodeText(getByPath(sourceData, path))

\* the number of leading characters of s that are not "}"
RECURSIVE RunNotClose(_)
RunNotClose(s) ==
  IF s = <<>> \/ Head(s) = "}" THEN 0 ELSE 1 + RunNotClose(Tail(s))

\* a resolver whose placeholders may be empty: {{}} is replaced as well
RECURSIVE resolveTemplateValue_emptyMatch(_, _)
resolveTemplateValue_emptyMatch(rawValue, references) ==
  IF rawValue = <<>> THEN <<>>
  ELSE
    LET n == Len(rawValue)
        opens == n >= 2 /\ rawValue[1] = "{" /\ rawValue[2] = "{"
        rest == IF opens THEN SubSeq(rawValue, 3, n) ELSE <<>>
        m == RunNotClose(rest)
        matches == opens /\ Len(rest) >= m + 2
                   /\ rest[m + 1] = "}" /\ rest[m + 2] = "}"
    IN  IF matches
          THEN resolveExpression(SubSeq(rest, 1, m), references)
               \o resolveTemplateValue_emptyMatch(
                    SubSeq(rest, m + 3, Len(rest)), references)
          ELSE <<Head(rawValue)>>
               \o resolveTemplateValue_emptyMatch(Tail(rawValue), references)

\* a resolver that scans the text it has put in place of a placeholder again
RECURSIVE resolveTemplateValue_rescans(_, _)
resolveTemplateValue_rescans(rawValue, references) ==
  IF rawValue = <<>> THEN <<>>
  ELSE
    LET n == Len(rawValue)
        opens == n >= 2 /\ rawValue[1] = "{" /\ rawValue[2] = "{"
        rest == IF opens THEN SubSeq(rawValue, 3, n) ELSE <<>>
        m == RunNotClose(rest)
        matches == opens /\ m >= 1 /\ Len(rest) >= m + 2
                   /\ rest[m + 1] = "}" /\ rest[m + 2] = "}"
    IN  IF matches
          THEN resolveTemplateValue_rescans(
                 resolveExpression(SubSeq(rest, 1, m), references)
                 \o SubSeq(rest, m + 3, Len(rest)), references)
          ELSE <<Head(rawValue)>>
               \o resolveTemplateValue_rescans(Tail(rawValue), references)

\* resolveTemplateValue: every match of /\{\{\s*([^}]+)\s*\}\}/g, leftmost
\* first and not overlapping, is replaced by what its inner text resolves to
RECURSIVE resolveTemplateValue(_, _)
resolveTemplateValue(rawValue, references) ==
  IF rawValue = <<>> THEN <<>>
  ELSE
    LET n == Len(rawValue)
        opens == n >= 2 /\ rawValue[1] = "{" /\ rawValue[2] = "{"
        rest == IF opens THEN SubSeq(rawValue, 3, n) ELSE <<>>
        m == RunNotClose(rest)
        matches == opens /\ m >= 1 /\ Len(rest) >= m + 2
                   /\ rest[m + 1] = "}" /\ rest[m + 2] = "}"
    IN  IF matches
          THEN resolveExpression(SubSeq(rest, 1, m), references)
               \o resolveTemplateValue(SubSeq(rest, m + 3, Len(rest)),
                                       references)
          ELSE <<Head(rawValue)>>
               \o resolveTemplateValue(Tail(rawValue), references)

\* ------------------------------------------------------------------------
\* Request context builder
\* ------------------------------------------------------------------------
Letters ==
  {"a", "b", "c", "d", "e", "f", "g", "h", "i", "j", "k", "l", "m", "n", "o",
   "p", "q", "r", "s", "t", "u", "v", "w", "x", "y", "z", "A", "B", "C", "D",
   "E", "F", "G", "H", "I", "J", "K", "L", "M", "N", "O", "P", "Q", "R", "S",
   "T", "U", "V", "W", "X", "Y", "Z"}

StartsWith(s, p) == Len(s) >= Len(p) /\ SubSeq(s, 1, Len(p)) = p

\* [a-zA-Z\d+\-.]
InScheme(c) == c \in Letters \/ IsDigit(c) \/ c \in {"+", "-", "."}

\* [\w.-]
InHost(c) == c \in Letters \/ IsDigit(c) \/ c \in {"_", ".", "-"}

\* the length of the longest prefix of s made of scheme characters
RECURSIVE RunScheme(_)
RunScheme(s) ==
  IF s = <<>> \/ ~InScheme(Head(s)) THEN 0 ELSE 1 + RunScheme(Tail(s))

RECURSIVE RunHost(_)
RunHost(s) ==
  IF s = <<>> \/ ~InHost(Head(s)) THEN 0 ELSE 1 + RunHost(Tail(s))

RECURSIVE RunDigits(_)
RunDigits(s) ==
  IF s = <<>> \/ ~IsDigit(Head(s)) THEN 0 ELSE 1 + RunDigits(Tail(s))

\* /^[a-zA-Z][a-zA-Z\d+\-.]*:\/\//
hasScheme(s) ==
  /\ s # <<>>
  /\ Head(s) \in Letters
  /\ LET k == RunScheme(Tail(s))
     IN  StartsWith(SubSeq(s, k + 2, Len(s)), <<":", "/", "/">>)

\* /^[\w.-]+:\d+(\/|$)/
looksLikeHostPort(s) ==
  LET h == RunHost(s)
      afterHost == SubSeq(s, h + 1, Len(s))
      d == IF afterHost = <<>> THEN 0 ELSE RunDigits(Tail(afterHost))
      afterPort == SubSeq(afterHost, d + 2, Len(afterHost))
  IN  /\ h >= 1
      /\ afterHost # <<>> /\ Head(afterHost) = ":"
      /\ d >= 1
      /\ (afterPort = <<>> \/ Head(afterPort) = "/")

normalizeEndpointUrl(rawUrl) ==
  LET trimmed == trim(rawUrl)
  IN  IF trimmed = <<>> THEN <<>>
      ELSE IF hasScheme(trimmed) THEN trimmed
      ELSE IF looksLikeHostPort(trimmed)
        THEN <<"h", "t", "t", "p", ":", "/", "/">> \o trimmed
      ELSE trimmed

\* the correlation ids the builder treats specially
id77816 == <<"7", "7", "8", "1", "6">>
id26216 == <<"2", "6", "2", "1", "6">>
id11994 == <<"1", "1", "9", "9", "4">>
id18409 == <<"1", "8", "4", "0", "9">>
id73907 == <<"7", "3", "9", "0", "7">>
id27147 == <<"2", "7", "1", "4", "7">>
id26021 == <<"2", "6", "0", "2", "1">>

\* '10a250d95b1a6afedcda8360a12a1341'
FixedSignString ==
  <<"1", "0", "a", "2", "5", "0", "d", "9", "5", "b", "1", "a", "6", "a", "f",
    "e", "d", "c", "d", "a", "8", "3", "6", "0", "a", "1", "2", "a", "1", "3",
    "4", "1">>

\* the digest of a message, kept as the message it was computed from
md5(message) == <<"m", "d", "5", "(">> \o message \o <<")">>

\* new Date().toISOString().replace('T', ' ').slice(0, 19) at time now
signTimeText(now) == <<"t">> \o NatToStr(now)

\* ${v} in a template literal
Interpolate(v) == IF v.t = "undef" THEN ToStr(Undef) ELSE v.s

\* post with every string value passed through resolveTemplateValue and
\* every null or absent value left out
resolvedPost(scenario, scenarioReferences) ==
  [k \in Keys |->
     IF scenario.post[k].t \in {"undef", "null"} THEN Undef
     ELSE Str(resolveTemplateValue(ToStr(scenario.post[k]),
                                   scenarioReferences))]

\* a choice in which an explicit id comes before the random id of 26216
prepareIdFor_explicitFirst(isComplete, clickTransId, explicitMerchantPrepareId, previousMerchantPrepareId, merchantPrepareIdByClickTransId, random) ==
  IF isComplete
    THEN OrStr(explicitMerchantPrepareId,
           IF clickTransId = id26216 THEN random
           ELSE IF clickTransId = id11994
             THEN OrStr(
               IF id18409 \in DOMAIN merchantPrepareIdByClickTransId
                 THEN merchantPrepareIdByClickTransId[id18409]
                 ELSE <<>>,
               previousMerchantPrepareId)
           ELSE previousMerchantPrepareId)
    ELSE <<>>

\* merchantPrepareIdUsed: what a complete request carries as its prepare id
prepareIdFor(isComplete, clickTransId, explicitMerchantPrepareId, previousMerchantPrepareId, merchantPrepareIdByClickTransId, random) ==
  IF isComplete
    THEN IF clickTransId = id26216 THEN random
         ELSE OrStr(explicitMerchantPrepareId,
                IF clickTransId = id11994
                  THEN OrStr(
                    IF id18409 \in DOMAIN merchantPrepareIdByClickTransId
                      THEN merchantPrepareIdByClickTransId[id18409]
                      ELSE <<>>,
                    previousMerchantPrepareId)
                  ELSE previousMerchantPrepareId)
    ELSE <<>>

\* the payload before its signature: the resolved post p0 with the fields
\* the builder derives
unsignedPayload(scenario, settings, p0, clickTransId, merchantPrepareIdUsed, random, now) ==
  [p0 EXCEPT
     !["service_id"] = Str(OrStr(settings.serviceId, FieldStr(@))),
     !["merchant_trans_id"] =
       Str(IF clickTransId = id77816 THEN random
           ELSE OrStr(settings.merchantTransId, FieldStr(@))),
     !["amount"] =
       Str(IF clickTransId = id73907 THEN <<"4", "9", "9">>
           ELSE OrStr(trim(FieldStr(@)), settings.amount)),
     !["merchant_prepare_id"] =
       IF scenario.action = "complete" /\ merchantPrepareIdUsed # <<>>
         THEN Str(merchantPrepareIdUsed) ELSE @,
     !["error"] = Str(ToStr(scenario.sending_error_code)),
     !["error_note"] = Str(OrStr(FieldStr(@), <<"O", "k">>)),
     !["click_paydoc_id"] = Str(OrStr(settings.clickPaydocId, FieldStr(@))),
     !["merchant_user_id"] =
       IF settings.merchantUserId # <<>>
         THEN Str(settings.merchantUserId) ELSE @,
     !["sign_time"] = Str(OrStr(FieldStr(@), signTimeText(now)))]

\* sign_string of the payload p1
signStringOf(scenario, settings, p1, clickTransId, merchantPrepareIdUsed) ==
  IF clickTransId = id27147 \/ clickTransId = id26021
    THEN FixedSignString
    ELSE md5(Interpolate(p1["click_trans_id"])
             \o Interpolate(p1["service_id"]) \o settings.secretKey
             \o Interpolate(p1["merchant_trans_id"])
             \o (IF scenario.action = "complete" THEN merchantPrepareIdUsed
                 ELSE <<>>)
             \o Interpolate(p1["amount"]) \o Interpolate(p1["action"])
             \o Interpolate(p1["sign_time"]))

\* the context the builder returns for the payload p1
signedContext(scenario, settings, p1, clickTransId, merchantPrepareIdUsed) ==
  [url |-> normalizeEndpointUrl(IF scenario.action = "complete"
                                  THEN settings.completeUrl
                                  ELSE settings.prepareUrl),
   payload |-> [p1 EXCEPT !["sign_string"] =
                  Str(signStringOf(scenario, settings, p1, clickTransId,
                                   merchantPrepareIdUsed))],
   merchantPrepareIdUsed |-> merchantPrepareIdUsed]

\* the builder once merchantPrepareIdUsed is known
contextWithPrepareId(scenario, settings, p0, clickTransId, merchantPrepareIdUsed, random, now) ==
  signedContext(scenario, settings,
    unsignedPayload(scenario, settings, p0, clickTransId,
                    merchantPrepareIdUsed, random, now),
    clickTransId, merchantPrepareIdUsed)

\* the builder once the click_trans_id of the resolved post is known
contextWithClickTransId(scenario, settings, previousMerchantPrepareId, merchantPrepareIdByClickTransId, p0, clickTransId, random, now) ==
  contextWithPrepareId(scenario, settings, p0, clickTransId,
    prepareIdFor(scenario.action = "complete", clickTransId,
                 trim(FieldStr(p0["merchant_prepare_id"])),
                 previousMerchantPrepareId, merchantPrepareIdByClickTransId,
                 random),
    random, now)

\* the builder once the post is resolved
contextOfPost(scenario, settings, previousMerchantPrepareId, merchantPrepareIdByClickTransId, p0, random, now) ==
  contextWithClickTransId(scenario, settings, previousMerchantPrepareId,
    merchantPrepareIdByClickTransId, p0,
    trim(FieldStr(p0["click_trans_id"])), random, now)

\* buildRequestContext; random is what randomTransactionId returns if it is
\* called, now the time of the call
buildRequestContext(scenario, settings, previousMerchantPrepareId, merchantPrepareIdByClickTransId, scenarioReferences, random, now) ==
  contextOfPost(scenario, settings, previousMerchantPrepareId,
    merchantPrepareIdByClickTransId,
    resolvedPost(scenario, scenarioReferences), random, now)

\* ------------------------------------------------------------------------
\* Scenario records
\* ------------------------------------------------------------------------
\* a ScenarioDefinition as a TestScenario with no result yet; hasPost is
\* false for a definition without a post (post undefined)
Scenario(action, sending, expected, post) ==
  [action |-> action, sending_error_code |-> sending,
   expected_error_code |-> expected, post |-> post, hasPost |-> TRUE,
   idx |-> 0,
   status |-> "idle", requestPayload |-> PayloadUndef,
   response |-> RespUndef, rawResponse |-> <<>>, actualErrorCode |-> Undef,
   errorMessage |-> NoMsg, startedAt |-> <<>>, finishedAt |-> <<>>,
   durationMs |-> <<>>]

\* the fields that only a run writes
ResultFields ==
  {"requestPayload", "response", "rawResponse", "actualErrorCode",
   "errorMessage", "startedAt", "finishedAt", "durationMs"}

\* a mapping that numbers no scenario
mapScenarioDefinitionsToTestScenarios_noIdx(data) ==
  [i \in 1..Len(data) |-> [data[i] EXCEPT !.status = "idle"]]

\* every field of an entry is kept (the spread), idx and status are set
mapScenarioDefinitionsToTestScenarios(data) ==
  [i \in 1..Len(data) |-> [data[i] EXCEPT !.idx = i - 1, !.status = "idle"]]

\* the post of a scenario added in the scenario manager
defaultPostPayload ==
  [NoFields EXCEPT
     !["click_trans_id"] = Str(<<>>), !["service_id"] = Str(<<>>),
     !["merchant_trans_id"] = Str(<<>>),
     !["merchant_prepare_id"] = Str(<<>>), !["amount"] = Str(<<>>),
     !["action"] = Str(<<"0">>), !["error"] = Num(0),
     !["error_note"] = Str(<<"O", "k">>), !["sign_time"] = Str(<<>>),
     !["sign_string"] = Str(<<>>), !["click_paydoc_id"] = Str(<<>>)]

\* the scenario the manager adds to its draft
createDefaultScenario == Scenario("prepare", Num(0), Num(0), defaultPostPayload)

\* the text of the post box of the manager, by what JSON.parse makes of it:
\* an object with its fields, an array, a scalar, or text that is not JSON
PostText(kind, f) == [kind |-> kind, f |-> f]

\* JSON.stringify followed by JSON.parse: a field that is undefined is left
\* out, a number that is not finite comes back as null
prettyJson(value) ==
  PostText("object",
           [k \in Keys |-> IF value[k].t = "inf" THEN Null ELSE value[k]])

\* the draft of the manager when it opens or the list changes under it: a
\* copy of the list, or one new scenario when the list is empty
draftOf(list) ==
  IF Len(list) > 0
    THEN [i \in 1..Len(list) |->
            IF list[i].hasPost THEN list[i]
            ELSE [list[i] EXCEPT !.post = NoFields, !.hasPost = TRUE]]
    ELSE <<createDefaultScenario>>

\* the state of the component before it first opens: useState([]),
\* useState(0), useState('{}'), useState(''). What it holds while it is
\* closed is not shown and is replaced when it opens, so the closed manager
\* is held in this state; edits is no state of the component, it counts
\* the edits of the behaviour
ClosedManager ==
  [open |-> FALSE, draft |-> <<>>, selectedIdx |-> 0,
   postJson |-> PostText("object", NoFields), formError |-> "", edits |-> 0]

\* the effect on [open, scenarios] of the open manager: the draft, the first
\* row selected, the post of the first row of the list in the post box (the
\* default post when that row has none), no error shown
openManager(list) ==
  [open |-> TRUE, draft |-> draftOf(list), selectedIdx |-> 0,
   postJson |-> prettyJson(IF Len(list) > 0 /\ ~list[1].hasPost
                             THEN defaultPostPayload
                             ELSE draftOf(list)[1].post),
   formError |-> "", edits |-> 0]

\* a click on the row idx of the manager
handleSelect(m, idx) ==
  [m EXCEPT !.selectedIdx = idx,
            !.postJson = prettyJson(m.draft[idx + 1].post),
            !.formError = ""]

\* the fields of the form of the manager, written to the selected row
patchSelected(m, patch) ==
  [m EXCEPT !.draft =
     [i \in 1..Len(@) |->
        IF i - 1 = m.selectedIdx
          THEN [k \in DOMAIN @[i] |->
                  IF k \in DOMAIN patch THEN patch[k] ELSE @[i][k]]
          ELSE @[i]]]

\* typing in the post box
setPostJson(m, text) == [m EXCEPT !.postJson = text]

\* the Add button of the manager
handleAdd(m) ==
  [m EXCEPT !.draft = Append(@, createDefaultScenario),
            !.selectedIdx = Len(m.draft),
            !.postJson = prettyJson(createDefaultScenario.post),
            !.formError = ""]

\* the Delete button of the manager
handleDelete(m) ==
  IF Len(m.draft) <= 1
    THEN [m EXCEPT !.draft = <<createDefaultScenario>>, !.selectedIdx = 0,
                   !.postJson = prettyJson(defaultPostPayload),
                   !.formError = ""]
    ELSE LET nextIdx == IF m.selectedIdx > 0 THEN m.selectedIdx - 1 ELSE 0
             shown == IF nextIdx = m.selectedIdx THEN m.selectedIdx + 1
                      ELSE nextIdx
         IN  [m EXCEPT
                !.draft = SubSeq(@, 1, m.selectedIdx)
                          \o SubSeq(@, m.selectedIdx + 2, Len(@)),
                !.selectedIdx = nextIdx,
                !.postJson =
                  prettyJson(IF shown + 1 <= Len(m.draft)
                               THEN m.draft[shown + 1].post
                               ELSE defaultPostPayload),
                !.formError = ""]

\* what the manager shows when the text of the post box is no JSON object:
\* the message of JSON.parse, or its own for a value that is no object
parseError(text) == IF text.kind = "text" THEN "syntax" ELSE "notObject"

\* the Apply button of the manager: the post of the post box becomes the
\* post of the selected row, or the error is shown
handleApplyPostJson(m) ==
  IF m.selectedIdx + 1 > Len(m.draft) THEN m
  ELSE IF m.postJson.kind = "object"
    THEN [patchSelected(m, [post |-> m.postJson.f]) EXCEPT !.formError = ""]
  ELSE [m EXCEPT !.formError = parseError(m.postJson)]

normalizeAction(value) ==
  IF value = "complete" THEN "complete" ELSE "prepare"

\* the Save button of the manager: nothing is saved when the text of the
\* post box is not a JSON object; else the list handed to onSave, the
\* selected row with the post of the post box
handleSave(m) ==
  IF m.postJson.kind # "object" THEN [saved |-> FALSE, next |-> <<>>]
  ELSE [saved |-> TRUE,
        next |-> [i \in 1..Len(m.draft) |->
                    [m.draft[i] EXCEPT
                       !.idx = i - 1, !.action = normalizeAction(@),
                       !.post = IF i - 1 = m.selectedIdx THEN m.postJson.f
                                ELSE @]]]

\* the list handleSaveScenarios stores
handleSaveScenarios(next) ==
  [i \in 1..Len(next) |-> [next[i] EXCEPT !.idx = i - 1]]

\* an arming that only sets the status
normalizeScenarioForQueue_keepsResults(scenario) ==
  [scenario EXCEPT !.status = "queued"]

normalizeScenarioForQueue(scenario) ==
  [scenario EXCEPT
     !.status = "queued", !.response = RespNull, !.rawResponse = <<>>,
     !.errorMessage = NoMsg, !.requestPayload = PayloadUndef,
     !.actualErrorCode = Undef, !.startedAt = <<>>, !.finishedAt = <<>>,
     !.durationMs = <<>>]

\* ------------------------------------------------------------------------
\* Log
\* ------------------------------------------------------------------------
\* the number of entries the log panel keeps
LogLimit == 500

LogEntry(level, text, idx) == [level |-> level, text |-> text, idx |-> idx]

\* addLog
addLog(log, level, text, idx) ==
  LET next == Append(log, LogEntry(level, text, idx))
  IN  IF Len(next) <= LogLimit THEN next
      ELSE SubSeq(next, Len(next) - LogLimit + 1, Len(next))

\* ------------------------------------------------------------------------
\* Scenario execution engine: runQueue
\* ------------------------------------------------------------------------
\* m with key k set to v
Put(m, k, v) == [x \in DOMAIN m \cup {k} |-> IF x = k THEN v ELSE m[x]]

EmptyMap == [x \in {} |-> <<>>]

\* String(item.post.click_trans_id || '').trim()
PostClickTransId(post) ==
  IF Truthy(post["click_trans_id"]) THEN trim(ToStr(post["click_trans_id"]))
  ELSE <<>>

\* item.post.click_trans_id raises for a scenario without a post
SeedRaises(list) == \E i \in 1..Len(list) : ~list[i].hasPost

\* a table that starts empty whatever the list holds
SeedReferences_empty(list, refs) == refs

\* the reference table runQueue builds from the scenario list it closes over
RECURSIVE SeedReferences(_, _)
SeedReferences(list, refs) ==
  IF list = <<>> THEN refs
  ELSE LET item == Head(list)
           clickTransId == PostClickTransId(item.post)
       IN  SeedReferences(Tail(list),
             IF clickTransId = <<>> THEN refs
             ELSE Put(refs, clickTransId,
                      [post |-> item.post, request |-> item.requestPayload,
                       response |-> item.response]))

\* a registration that forgets the response the entry held
RegisterRequest_dropsResponse(refs, id, post, payload) ==
  IF id = <<>> THEN refs
  ELSE Put(refs, id,
           [post |-> post, request |-> PayloadOf(payload),
            response |-> RespUndef])

\* { ...(scenarioReferences[id] || {}), post, request }
RegisterRequest(refs, id, post, payload) ==
  IF id = <<>> THEN refs
  ELSE Put(refs, id,
           [post |-> post, request |-> PayloadOf(payload),
            response |-> IF id \in DOMAIN refs THEN refs[id].response
                         ELSE RespUndef])

\* a table that never takes the response of a finished scenario
RegisterResponse_keepsOld(refs, id, post, payload, response) == refs

\* { ...(scenarioReferences[id] || {}), post, request, response }
RegisterResponse(refs, id, post, payload, response) ==
  IF id = <<>> THEN refs
  ELSE Put(refs, id,
           [post |-> post, request |-> PayloadOf(payload),
            response |-> response])

\* the locals of one invocation of runQueue; index counts from 0
NewRun_noPreset(snapshot, settings, list) ==
  [snapshot |-> snapshot, index |-> 0, settings |-> settings,
   merchantPrepareIdByClickTransId |-> EmptyMap,
   scenarioReferences |-> SeedReferences(list, EmptyMap),
   merchantPrepareIdOld |-> <<>>,
   payload |-> NoFields, url |-> <<>>, scenarioClickTransId |-> <<>>,
   startedAt |-> 0]

NewRun(snapshot, settings, list) ==
  [snapshot |-> snapshot, index |-> 0, settings |-> settings,
   merchantPrepareIdByClickTransId |-> EmptyMap,
   scenarioReferences |-> SeedReferences(list, EmptyMap),
   merchantPrepareIdOld |-> settings.presetMerchantPrepareId,
   payload |-> NoFields, url |-> <<>>, scenarioClickTransId |-> <<>>,
   startedAt |-> 0]

\* setScenarios at the start of a scenario
SetRunning(list, idx, now) ==
  [i \in 1..Len(list) |->
     IF list[i].idx = idx
       THEN [list[i] EXCEPT !.status = "running", !.startedAt = <<now>>]
       ELSE list[i]]

\* a result that is written to every row of the list
SetResult_everyRow(list, idx, res, payload, startedAt, now) ==
  [i \in 1..Len(list) |->
     [list[i] EXCEPT !.status = res.status, !.response = res.response,
                     !.finishedAt = <<now>>]]

\* a result that is never written to the list
SetResult_writesNothing(list, idx, res, payload, startedAt, now) == list

\* setScenarios at the end of a scenario
SetResult(list, idx, res, payload, startedAt, now) ==
  [i \in 1..Len(list) |->
     IF list[i].idx = idx
       THEN [list[i] EXCEPT
               !.status = res.status, !.response = res.response,
               !.rawResponse = <<res.rawResponse>>,
               !.errorMessage = res.errorMessage,
               !.requestPayload = PayloadOf(payload),
               !.actualErrorCode = res.actualErrorCode,
               !.finishedAt = <<now>>, !.durationMs = <<now - startedAt>>]
       ELSE list[i]]

\* a chain that takes no prepare id from any response
ChainedPrepareId_none(scenario, out) == <<>>

\* a chain that takes the prepare id of every response, whatever the action
ChainedPrepareId_anyAction(scenario, out) ==
  IF ~out.threw /\ out.json.t = "obj"
       /\ out.json.f["merchant_prepare_id"].t = "str"
    THEN trim(out.json.f["merchant_prepare_id"].s)
    ELSE <<>>

\* the prepare id a response gives to the chain: '' when it gives none
ChainedPrepareId(scenario, out) ==
  IF ~out.threw /\ scenario.action = "prepare" /\ out.json.t = "obj"
       /\ out.json.f["merchant_prepare_id"].t = "str"
    THEN trim(out.json.f["merchant_prepare_id"].s)
    ELSE <<>>

\* The state of one pass through the loop of runQueue: the scenario list and
\* the log it writes, its locals, and done when it has left the loop.
\* StartScenarios is the top of the loop body, from the check of the
\* cancellation flag to the call of sendScenarioRequest; it goes on to
\* FinishScenario without waiting when the call raises on an empty URL, and
\* otherwise stops there, the request in flight.
RECURSIVE StartScenarios(_, _, _, _)
RECURSIVE FinishScenario(_, _, _, _, _)

\* the call of sendScenarioRequest
dispatch(st, cancel, random, now) ==
  IF st.run.url = <<>>
    THEN FinishScenario(st, sendScenarioRequest(st.run.url, NetFail),
                        cancel, random, now)
    ELSE st

\* the scenario is shown running, logged and registered with its request
started(st, scenario, ctx, scenarioClickTransId, now) ==
  [st EXCEPT
     !.scenarios = SetRunning(@, scenario.idx, now),
     !.logs = addLog(@, "info", "scenario", scenario.idx),
     !.run = [@ EXCEPT
       !.payload = ctx.payload, !.url = ctx.url,
       !.scenarioClickTransId = scenarioClickTransId,
       !.startedAt = now,
       !.scenarioReferences =
         RegisterRequest(@, scenarioClickTransId, scenario.post,
                         ctx.payload)]]

\* the loop body from the context ctx of the scenario to its request
startScenario(st, scenario, ctx, cancel, random, now) ==
  dispatch(started(st, scenario, ctx,
                   trim(FieldStr(ctx.payload["click_trans_id"])), now),
           cancel, random, now)

StartScenarios(st, cancel, random, now) ==
  IF st.run.index >= Len(st.run.snapshot) THEN [st EXCEPT !.done = TRUE]
  ELSE IF cancel
    THEN [st EXCEPT !.logs = addLog(@, "info", "stoppedByUser", -1),
                    !.done = TRUE]
  ELSE startScenario(st, st.run.snapshot[st.run.index + 1],
         buildRequestContext(st.run.snapshot[st.run.index + 1],
           st.run.settings, st.run.merchantPrepareIdOld,
           st.run.merchantPrepareIdByClickTransId,
           st.run.scenarioReferences, random[st.run.index + 1], now),
         cancel, random, now)

\* the result res is recorded, logged and registered, and the chain state
\* takes the prepare id of the response
finished(st, scenario, res, prepareId, now) ==
  [st EXCEPT
     !.scenarios = SetResult(@, scenario.idx, res, st.run.payload,
                             st.run.startedAt, now),
     !.logs = addLog(@, IF res.status = "success" THEN "success"
                        ELSE "error", "result", scenario.idx),
     !.run = [@ EXCEPT
       !.merchantPrepareIdOld = IF prepareId # <<>> THEN prepareId ELSE @,
       !.merchantPrepareIdByClickTransId =
         IF prepareId # <<>> /\ st.run.scenarioClickTransId # <<>>
           THEN Put(@, st.run.scenarioClickTransId, prepareId) ELSE @,
       !.scenarioReferences =
         RegisterResponse(@, st.run.scenarioClickTransId, scenario.post,
                          st.run.payload, res.response),
       !.index = @ + 1]]

\* the loop going on to the next scenario whatever the cancellation flag
continue_ignoresCancel(st, cancel, random, now) ==
  StartScenarios(st, FALSE, random, now)

\* a loop that marks the scenarios it never started as errors when it stops
continue_marksSkipped(st, cancel, random, now) ==
  IF cancel
    THEN [st EXCEPT
            !.scenarios =
              [i \in 1..Len(@) |->
                 IF \E k \in (st.run.index + 1)..Len(st.run.snapshot) :
                      st.run.snapshot[k].idx = @[i].idx
                   THEN [@[i] EXCEPT !.status = "error",
                                     !.finishedAt = <<now>>]
                   ELSE @[i]],
            !.logs = addLog(@, "info", "skipped", -1), !.done = TRUE]
    ELSE StartScenarios(st, cancel, random, now)

\* the second check of the cancellation flag, and on to the next scenario
continue(st, cancel, random, now) ==
  IF cancel
    THEN [st EXCEPT !.logs = addLog(@, "info", "skipped", -1),
                    !.done = TRUE]
    ELSE StartScenarios(st, cancel, random, now)

\* a loop that an error result ends
FinishScenario_breaksOnError(st, out, cancel, random, now) ==
  IF Classify(st.run.snapshot[st.run.index + 1].expected_error_code,
              out).status = "error"
    THEN [finished(st, st.run.snapshot[st.run.index + 1],
            Classify(st.run.snapshot[st.run.index + 1].expected_error_code,
                     out),
            ChainedPrepareId(st.run.snapshot[st.run.index + 1], out), now)
          EXCEPT !.done = TRUE]
    ELSE continue(
           finished(st, st.run.snapshot[st.run.index + 1],
             Classify(st.run.snapshot[st.run.index + 1].expected_error_code,
                      out),
             ChainedPrepareId(st.run.snapshot[st.run.index + 1], out), now),
           cancel, random, now)

\* The rest of the loop body, from the return of sendScenarioRequest (out) to
\* the second check of the cancellation flag, and on to the next scenario.
FinishScenario(st, out, cancel, random, now) ==
  continue(
    finished(st, st.run.snapshot[st.run.index + 1],
      Classify(st.run.snapshot[st.run.index + 1].expected_error_code, out),
      ChainedPrepareId(st.run.snapshot[st.run.index + 1], out), now),
    cancel, random, now)

\* ------------------------------------------------------------------------
\* The inputs of the model
\* ------------------------------------------------------------------------
defaultSettings ==
  [prepareUrl |-> <<>>, completeUrl |-> <<>>, serviceId |-> <<>>,
   secretKey |-> <<>>, merchantTransId |-> <<>>, amount |-> <<>>,
   merchantUserId |-> <<>>,
   clickPaydocId |-> <<"1", "6", "8", "5", "3", "7", "6", "1">>,
   presetMerchantPrepareId |-> <<>>]

\* settings with which a run starts: a host:port and a URL with a scheme
ReadySettings ==
  [defaultSettings EXCEPT
     !.prepareUrl = <<"p", ":", "1">>,
     !.completeUrl = <<"h", ":", "/", "/", "c">>,
     !.serviceId = <<"7">>, !.secretKey = <<"k">>,
     !.presetMerchantPrepareId = <<"9">>]

\* the settings local storage may hold when the page opens
StoredSettings ==
  {defaultSettings, ReadySettings,
   [ReadySettings EXCEPT !.prepareUrl = <<"\t">>],
   [ReadySettings EXCEPT !.prepareUrl = <<>>],
   [ReadySettings EXCEPT !.completeUrl = <<>>],
   [ReadySettings EXCEPT !.serviceId = <<>>],
   [ReadySettings EXCEPT !.secretKey = <<>>]}

\* the edits of the settings form: a field and its new value
SettingsEdits ==
  {<<"completeUrl", <<>> >>}

\* post mappings of the scenario definitions
PostOf(clickTransId, action) ==
  [NoFields EXCEPT !["click_trans_id"] = Str(clickTransId),
                   !["action"] = Str(action)]

PreparePlain == Scenario("prepare", Num(0), Num(0), PostOf(id18409, <<"0">>))

\* a complete with an empty merchant_prepare_id field, and a placeholder for
\* the response to 18409 in its error_note
CompletePlain ==
  Scenario("complete", Num(0), Num(0),
    [PostOf(<<"5">>, <<"1">>) EXCEPT
       !["merchant_prepare_id"] = Str(<<>>),
       !["error_note"] =
         Str(<<"{", "{">> \o tResponse \o <<".">> \o id18409 \o <<".">>
             \o KeyText["merchant_prepare_id"] \o <<"}", "}">>)])

\* a complete that expects the code 5 back
Complete11994 == Scenario("complete", Num(5), Num(5), PostOf(id11994, <<"1">>))

Complete26216 == Scenario("complete", Num(0), Num(0), PostOf(id26216, <<"1">>))

\* a prepare whose post carries a merchant_prepare_id and a numeric amount
Prepare27147 ==
  Scenario("prepare", Num(0), Num(0),
    [PostOf(id27147, <<"0">>) EXCEPT
       !["merchant_prepare_id"] = Str(<<"7">>), !["amount"] = Num(5)])

\* an entry of a template file that carries more than a definition: the
\* row of a prepare as an earlier run left it, with its response
PrepareRich ==
  [PreparePlain EXCEPT
     !.idx = 7, !.status = "success",
     !.requestPayload = PayloadOf(PostOf(id18409, <<"0">>)),
     !.response =
       RespObj([NoRespFields EXCEPT !["error"] = Num(0),
                                    !["merchant_prepare_id"] = Str(<<"4">>)]),
     !.rawResponse =
       <<Body("object",
              [NoRespFields EXCEPT !["error"] = Num(0),
                                   !["merchant_prepare_id"] = Str(<<"4">>)])>>,
     !.actualErrorCode = Num(0),
     !.startedAt = <<0>>, !.finishedAt = <<1>>, !.durationMs = <<1>>]

\* the scenario lists a template file may hold: the prefixes of these
\* sequences, up to MaxScenarios long
Fixtures ==
  {<<PreparePlain, CompletePlain, Complete11994>>,
   <<PreparePlain, Complete11994>>,
   <<Prepare27147, Complete26216>>,
   <<CompletePlain, Complete11994>>,
   <<PrepareRich, CompletePlain>>}

ScenarioLists ==
  UNION {{mapScenarioDefinitionsToTestScenarios(SubSeq(f, 1, n)) :
            n \in 0..(IF Len(f) < MaxScenarios THEN Len(f)
                      ELSE MaxScenarios)} : f \in Fixtures}

\* the templates tried with every kind of settings
PlainLists ==
  {<<>>, mapScenarioDefinitionsToTestScenarios(<<PreparePlain, CompletePlain>>)}

\* the replies an endpoint gives during a run
RespOf(success, error, message, prepareId) ==
  [success |-> success, error |-> error, message |-> message,
   merchant_prepare_id |-> prepareId]

Replies ==
  {Reply(500, Body("object", RespOf(Undef, Num(0), Undef, Str(<<"4">>)))),
   Reply(200, Body("object", RespOf(Undef, Str(<<"0">>), Undef,
                                    Str(<<"\t", "5", "5", "\n">>)))),
   Reply(200, Body("object", RespOf(Undef, Num(5), Undef, Undef)))}

\* what randomTransactionId may return: the ends of its range
RandomIds ==
  {<<"9", "9", "9", "9", "9", "9", "9", "9", "9">>,
   <<"9", "9", "9", "9", "9", "9", "9", "9", "9", "0", "0", "0">>}

\* ------------------------------------------------------------------------
\* State
\* ------------------------------------------------------------------------
VARIABLES
  settings,          \* TesterSettings (React state of App)
  scenarios,         \* the TestScenario list (React state of App)
  logs,              \* the log panel's entries
  isRunning,         \* React state of App
  loadingScenarios,  \* React state of App
  cancelRef,         \* cancelRef.current
  runs,              \* the locals of every invocation of runQueue that
                     \* waits for its request
  loads,             \* the number of template fetches in flight
  template,          \* the scenario definitions of /template.json
  initializedFromTemplateRef,
                     \* initializedFromTemplateRef.current
  manager,           \* scenarioManagerOpen of App and the state of the
                     \* ScenarioManager component
  clock,             \* the wall clock
  events,            \* the number of user events so far
  last               \* the latest step: the handler, whether it passed its
                     \* guards, the row or scenario idx it was about, and
                     \* the reply a run was resumed with

vars ==
  <<settings, scenarios, logs, isRunning, loadingScenarios, cancelRef, runs,
    loads, template, initializedFromTemplateRef, manager, clock, events,
    last>>

\* what the behaviour has used of its user events: the events, and the edits
\* in the manager beyond MaxEdits
Spent ==
  events + (IF manager.edits > MaxEdits THEN manager.edits - MaxEdits ELSE 0)

NoReply == [net |-> "none", status |-> 0, body |-> NoBody]

Step(op, acted, arg) ==
  [op |-> op, acted |-> acted, arg |-> arg, reply |-> NoReply]

\* the list of a session that ran its first scenario: held at the first wait
\* of a full run over <<PreparePlain, CompletePlain>>
InFirstWait ==
  LET list == mapScenarioDefinitionsToTestScenarios(
                <<PreparePlain, CompletePlain>>)
      armed == [i \in 1..Len(list) |-> normalizeScenarioForQueue(list[i])]
      random == [i \in 1..Len(list) |->
                   <<"9", "9", "9", "9", "9", "9", "9", "9", "9">>]
  IN  [st |-> StartScenarios(
                [scenarios |-> armed, logs |-> <<>>,
                 run |-> NewRun(armed, ReadySettings, list), done |-> FALSE],
                FALSE, random, 0),
       random |-> random]

\* the lists the local storage may hold at the mount: none, the list of a
\* session that was closed while its first request was in flight, the list
\* of a session that was stopped after its first scenario
StoredScenarioLists ==
  {<<>>,
   InFirstWait.st.scenarios,
   FinishScenario(InFirstWait.st,
     sendScenarioRequest(InFirstWait.st.run.url,
       Reply(200, Body("object", RespOf(Undef, Num(0), Undef,
                                        Str(<<"4">>))))),
     TRUE, InFirstWait.random, 1).scenarios}

\* Handlers read the state of the latest render; a render follows every
\* change of state before the next event is handled. The scenario list and
\* the settings are kept in the local storage and read from it at the mount.
Init ==
  /\ settings \in StoredSettings
  /\ scenarios \in StoredScenarioLists
  /\ template \in ScenarioLists
  \* settings that a start refuses are looked at with an empty store and a
  \* plain template, where they make the difference
  /\ settings # ReadySettings => scenarios = <<>> /\ template \in PlainLists
  /\ logs = <<>>
  /\ isRunning = FALSE
  /\ cancelRef = FALSE
  /\ runs = <<>>
  \* the mount effect loads the template when no list is stored
  /\ loads = IF scenarios = <<>> THEN 1 ELSE 0
  /\ loadingScenarios = (scenarios = <<>>)
  /\ initializedFromTemplateRef = (scenarios = <<>>)
  /\ manager = ClosedManager
  /\ clock = 0
  /\ events = 0
  /\ last = Step("mount", TRUE, -1)

\* whether building the context of this scenario may draw a random id
NeedsRandom(scenario) ==
  LET raw == ToStr(scenario.post["click_trans_id"])
  IN  \/ trim(raw) \in {id77816, id26216}
      \/ \E i \in 1..Len(raw) : raw[i] = "{"

\* the results of the calls of randomTransactionId of one run, by position
RandomChoices(snapshot) ==
  {f \in [1..Len(snapshot) -> RandomIds] :
     \A i \in 1..Len(snapshot) :
       ~NeedsRandom(snapshot[i]) => f[i] = <<"9", "9", "9", "9", "9", "9",
                                             "9", "9", "9">>}

Remove(seq, i) == SubSeq(seq, 1, i - 1) \o SubSeq(seq, i + 1, Len(seq))

\* the state of the component with the count of the edits made so far
Counted(m) == [m EXCEPT !.edits = manager.edits]

\* the effect of the manager on [open, scenarios]: when the list is set
\* while the manager is open, the draft is made again from the new list
ListSeen(list) ==
  IF manager.open THEN Counted(openManager(list)) ELSE manager

\* the state of App when an invocation of runQueue reaches its first wait
\* or its end
launched(st) ==
  /\ scenarios' = st.scenarios
  /\ manager' = ListSeen(st.scenarios)
  /\ logs' = st.logs
  /\ runs' = IF st.done THEN runs ELSE Append(runs, st.run)
  /\ isRunning' = ~st.done
  /\ cancelRef' = FALSE

\* the state of App when an invocation of runQueue raises while it builds
\* its reference table: the flag is set and no invocation is left
raised(armed) ==
  /\ scenarios' = armed
  /\ manager' = ListSeen(armed)
  /\ isRunning' = TRUE
  /\ cancelRef' = FALSE
  /\ UNCHANGED <<logs, runs>>

\* runQueue(snapshot), called by a handler that has just set the scenario
\* list to armed: up to its first wait
runQueue(snapshot, armed, random) ==
  IF SeedRaises(scenarios) THEN raised(armed)
  ELSE launched(StartScenarios(
         [scenarios |-> armed, logs |-> addLog(logs, "info", "started", -1),
          run |-> NewRun(snapshot, settings, scenarios), done |-> FALSE],
         FALSE, random, clock))

\* the clock after a wait: time has passed
Later == clock + 1

\* the state of App when the i-th invocation of runQueue reaches its next
\* wait or its end
resumed(st, i) ==
  /\ scenarios' = st.scenarios
  /\ manager' = ListSeen(st.scenarios)
  /\ logs' = st.logs
  /\ runs' = IF st.done THEN Remove(runs, i) ELSE [runs EXCEPT ![i] = st.run]
  /\ isRunning' = IF st.done THEN FALSE ELSE isRunning
  \* the effect on isRunning clears the flag once no run is shown
  /\ cancelRef' = IF st.done THEN FALSE ELSE cancelRef

\* the rest of a run after its request resolved or failed with a reply of
\* the pool, up to its next wait or to its end
Resume(pool) ==
  \E i \in 1..Len(runs), reply \in pool :
    \E random \in RandomChoices(runs[i].snapshot) :
      /\ resumed(FinishScenario(
                   [scenarios |-> scenarios, logs |-> logs, run |-> runs[i],
                    done |-> FALSE],
                   sendScenarioRequest(runs[i].url, reply), cancelRef,
                   random, Later),
                 i)
      /\ clock' = Later
      /\ last' = [Step("runQueue", TRUE,
                       runs[i].snapshot[runs[i].index + 1].idx)
                    EXCEPT !.reply = reply]
      /\ UNCHANGED <<settings, loadingScenarios, loads, template,
                     initializedFromTemplateRef, events>>

ResumeRun == Resume(Replies)

\* handleStart without its check of the credentials
handleStart_noCredentialCheck ==
  /\ Spent < MaxEvents
  /\ events' = events + 1
  /\ UNCHANGED <<settings, loadingScenarios, loads, template,
                 initializedFromTemplateRef, clock>>
  /\ IF isRunning
       THEN /\ last' = Step("handleStart", FALSE, -1)
            /\ UNCHANGED <<manager, scenarios, logs, isRunning, cancelRef, runs>>
     ELSE IF settings.prepareUrl = <<>> \/ settings.completeUrl = <<>>
       THEN /\ logs' = addLog(logs, "error", "needUrls", -1)
            /\ last' = Step("handleStart", FALSE, -1)
            /\ UNCHANGED <<manager, scenarios, isRunning, cancelRef, runs>>
     ELSE IF Len(scenarios) = 0
       THEN /\ logs' = addLog(logs, "error", "needScenarios", -1)
            /\ last' = Step("handleStart", FALSE, -1)
            /\ UNCHANGED <<manager, scenarios, isRunning, cancelRef, runs>>
     ELSE LET snapshot == [i \in 1..Len(scenarios) |->
                             normalizeScenarioForQueue(scenarios[i])]
          IN  /\ \E random \in RandomChoices(snapshot) :
                   runQueue(snapshot, snapshot, random)
              /\ last' = Step("handleStart", TRUE, -1)

handleStart ==
  /\ Spent < MaxEvents
  /\ events' = events + 1
  /\ UNCHANGED <<settings, loadingScenarios, loads, template,
                 initializedFromTemplateRef, clock>>
  /\ IF isRunning
       THEN /\ last' = Step("handleStart", FALSE, -1)
            /\ UNCHANGED <<manager, scenarios, logs, isRunning, cancelRef, runs>>
     ELSE IF settings.prepareUrl = <<>> \/ settings.completeUrl = <<>>
       THEN /\ logs' = addLog(logs, "error", "needUrls", -1)
            /\ last' = Step("handleStart", FALSE, -1)
            /\ UNCHANGED <<manager, scenarios, isRunning, cancelRef, runs>>
     ELSE IF settings.serviceId = <<>> \/ settings.secretKey = <<>>
       THEN /\ logs' = addLog(logs, "error", "needCredentials", -1)
            /\ last' = Step("handleStart", FALSE, -1)
            /\ UNCHANGED <<manager, scenarios, isRunning, cancelRef, runs>>
     ELSE IF Len(scenarios) = 0
       THEN /\ logs' = addLog(logs, "error", "needScenarios", -1)
            /\ last' = Step("handleStart", FALSE, -1)
            /\ UNCHANGED <<manager, scenarios, isRunning, cancelRef, runs>>
     ELSE LET snapshot == [i \in 1..Len(scenarios) |->
                             normalizeScenarioForQueue(scenarios[i])]
          IN  /\ \E random \in RandomChoices(snapshot) :
                   runQueue(snapshot, snapshot, random)
              /\ last' = Step("handleStart", TRUE, -1)

\* handleRunScenario without its check of isRunning
handleRunScenario_unguarded(row) ==
  /\ Spent < MaxEvents
  /\ events' = events + 1
  /\ UNCHANGED <<settings, loadingScenarios, loads, template,
                 initializedFromTemplateRef, clock>>
  /\ IF settings.prepareUrl = <<>> \/ settings.completeUrl = <<>>
       THEN /\ logs' = addLog(logs, "error", "needUrls", -1)
            /\ last' = Step("handleRunScenario", FALSE, row)
            /\ UNCHANGED <<manager, scenarios, isRunning, cancelRef, runs>>
     ELSE IF settings.serviceId = <<>> \/ settings.secretKey = <<>>
       THEN /\ logs' = addLog(logs, "error", "needCredentials", -1)
            /\ last' = Step("handleRunScenario", FALSE, row)
            /\ UNCHANGED <<manager, scenarios, isRunning, cancelRef, runs>>
     ELSE LET scenario == scenarios[row]
              snapshotScenario == normalizeScenarioForQueue(scenario)
              armed == [i \in 1..Len(scenarios) |->
                          IF scenarios[i].idx = scenario.idx
                            THEN snapshotScenario ELSE scenarios[i]]
          IN  /\ \E random \in RandomChoices(<<snapshotScenario>>) :
                   runQueue(<<snapshotScenario>>, armed, random)
              /\ last' = Step("handleRunScenario", TRUE, row)

handleRunScenario(row) ==
  /\ Spent < MaxEvents
  /\ events' = events + 1
  /\ UNCHANGED <<settings, loadingScenarios, loads, template,
                 initializedFromTemplateRef, clock>>
  /\ IF isRunning
       THEN /\ logs' = addLog(logs, "error", "alreadyRunning", -1)
            /\ last' = Step("handleRunScenario", FALSE, row)
            /\ UNCHANGED <<manager, scenarios, isRunning, cancelRef, runs>>
     ELSE IF settings.prepareUrl = <<>> \/ settings.completeUrl = <<>>
       THEN /\ logs' = addLog(logs, "error", "needUrls", -1)
            /\ last' = Step("handleRunScenario", FALSE, row)
            /\ UNCHANGED <<manager, scenarios, isRunning, cancelRef, runs>>
     ELSE IF settings.serviceId = <<>> \/ settings.secretKey = <<>>
       THEN /\ logs' = addLog(logs, "error", "needCredentials", -1)
            /\ last' = Step("handleRunScenario", FALSE, row)
            /\ UNCHANGED <<manager, scenarios, isRunning, cancelRef, runs>>
     ELSE LET scenario == scenarios[row]
              snapshotScenario == normalizeScenarioForQueue(scenario)
              armed == [i \in 1..Len(scenarios) |->
                          IF scenarios[i].idx = scenario.idx
                            THEN snapshotScenario ELSE scenarios[i]]
          IN  /\ \E random \in RandomChoices(<<snapshotScenario>>) :
                   runQueue(<<snapshotScenario>>, armed, random)
              /\ last' = Step("handleRunScenario", TRUE, row)

\* a stopQueue that does not look at isRunning
stopQueue_unguarded ==
  /\ Spent < MaxEvents
  /\ events' = events + 1
  /\ UNCHANGED <<manager, settings, scenarios, isRunning, loadingScenarios, runs,
                 loads, template, initializedFromTemplateRef, clock>>
  /\ cancelRef' = TRUE
  /\ logs' = addLog(logs, "info", "stopRequested", -1)
  /\ last' = Step("stopQueue", TRUE, -1)

stopQueue ==
  /\ Spent < MaxEvents
  /\ events' = events + 1
  /\ UNCHANGED <<manager, settings, scenarios, isRunning, loadingScenarios, runs,
                 loads, template, initializedFromTemplateRef, clock>>
  /\ IF ~isRunning
       THEN /\ last' = Step("stopQueue", FALSE, -1)
            /\ UNCHANGED <<logs, cancelRef>>
       ELSE /\ cancelRef' = TRUE
            /\ logs' = addLog(logs, "info", "stopRequested", -1)
            /\ last' = Step("stopQueue", TRUE, -1)

\* the first stopQueue of a run, not counted among the events
stopQueueOnce ==
  /\ isRunning /\ ~cancelRef
  /\ cancelRef' = TRUE
  /\ logs' = addLog(logs, "info", "stopRequested", -1)
  /\ last' = Step("stopQueue", TRUE, -1)
  /\ UNCHANGED <<manager, settings, scenarios, isRunning, loadingScenarios, runs,
                 loads, template, initializedFromTemplateRef, clock, events>>

handleSettingsChange(key, value) ==
  /\ Spent < MaxEvents
  /\ events' = events + 1
  /\ settings' = [settings EXCEPT ![key] = value]
  /\ last' = Step("handleSettingsChange", TRUE, -1)
  /\ UNCHANGED <<manager, scenarios, logs, isRunning, loadingScenarios, cancelRef,
                 runs, loads, template, initializedFromTemplateRef, clock>>

\* the Load button, enabled while nothing loads and nothing runs: the part
\* of loadTemplateScenarios before its fetch
handleLoadScenarios ==
  /\ Spent < MaxEvents
  /\ ~loadingScenarios /\ ~isRunning
  /\ events' = events + 1
  /\ loadingScenarios' = TRUE
  /\ loads' = loads + 1
  /\ last' = Step("handleLoadScenarios", TRUE, -1)
  /\ UNCHANGED <<manager, settings, scenarios, logs, isRunning, cancelRef, runs,
                 template, initializedFromTemplateRef, clock>>

\* loadTemplateScenarios after its fetch: the file is served and is an array
\* of definitions (ok), or the fetch, the status or the JSON is bad
loadTemplateScenarios(ok) ==
  LET mapped == mapScenarioDefinitionsToTestScenarios(template)
      \* the effect on scenarios.length: the first time the list is empty
      \* the template is loaded again, as at the mount
      again == ok /\ mapped = <<>> /\ ~initializedFromTemplateRef
  IN  /\ loads > 0
      /\ loads' = IF again THEN loads ELSE loads - 1
      /\ loadingScenarios' = again
      /\ initializedFromTemplateRef' = (initializedFromTemplateRef \/ again)
      /\ IF ok
           THEN /\ scenarios' = mapped
                /\ manager' = ListSeen(mapped)
                /\ logs' = addLog(logs, "info", "loaded", Len(template))
           ELSE /\ logs' = addLog(logs, "error", "loadFailed", -1)
                /\ UNCHANGED <<manager, scenarios>>
      /\ last' = Step("loadTemplateScenarios", ok, -1)
      /\ UNCHANGED <<settings, isRunning, cancelRef, runs, template, clock,
                     events>>

\* the Clear button of the log panel, enabled while the panel has entries,
\* also during a run
handleClearPanelLogs ==
  /\ Spent < MaxEvents
  /\ logs # <<>>
  /\ events' = events + 1
  /\ logs' = <<>>
  /\ last' = Step("handleClearPanelLogs", TRUE, -1)
  /\ UNCHANGED <<manager, settings, scenarios, isRunning, loadingScenarios, cancelRef,
                 runs, loads, template, initializedFromTemplateRef, clock>>

\* the options of the action select of the form
TypedActions == {"prepare", "complete"}

\* the texts typed into a code box of the form: the box emptied, and a code
TypedCodes == {<<>>, <<"5">>}

\* Number(event.target.value || 0) of a code box: the empty text is 0, any
\* other text the number Number() reads from it, a fraction, an infinity
\* and NaN included
TypedCode(text) ==
  IF text = <<>> THEN Num(0) ELSE NumberValue(StrToNumber(text))

\* the post typed into the post box
TypedPost == PostText("object", PostOf(<<"7", "7">>, <<"0">>))

\* a text that parses to no object
BadPostTexts == {PostText("array", NoFields)}

\* The scenario manager is a component of its own: every click and every
\* keystroke in it is one call of a handler, and the draft keeps what they
\* did until Save or Close. The handlers of App run between them.

\* the Scenarios button of the settings panel
onOpenScenarioManager ==
  /\ Spent < MaxEvents
  /\ ~manager.open
  /\ events' = events + 1
  /\ manager' = Counted(openManager(scenarios))
  /\ last' = Step("onOpenScenarioManager", TRUE, -1)
  /\ UNCHANGED <<settings, scenarios, logs, isRunning, loadingScenarios,
                 cancelRef, runs, loads, template,
                 initializedFromTemplateRef, clock>>

\* a handler of the open manager that changes the state of the component
\* only
ManagerEdit(op, next) ==
  /\ manager.open
  /\ manager.edits < MaxEdits \/ Spent < MaxEvents
  /\ manager' = [next EXCEPT !.edits = manager.edits + 1]
  /\ last' = Step(op, TRUE, -1)
  /\ UNCHANGED <<settings, scenarios, logs, isRunning, loadingScenarios,
                 cancelRef, runs, loads, template,
                 initializedFromTemplateRef, clock, events>>

\* a click on a row of the list of the manager
SelectRow ==
  \E idx \in 0..(Len(manager.draft) - 1) :
    ManagerEdit("handleSelect", handleSelect(manager, idx))

\* the Add button, disabled while a run is shown
AddRow ==
  /\ ~isRunning
  /\ Len(manager.draft) < MaxScenarios
  /\ ManagerEdit("handleAdd", handleAdd(manager))

\* the Delete button, disabled while a run is shown
DeleteRow ==
  /\ ~isRunning
  /\ ManagerEdit("handleDelete", handleDelete(manager))

\* The form is shown while a row is selected; each of its fields has an
\* onChange of its own that patches that one field of the selected row. The
\* description and go_to_script boxes patch fields that no handler of App
\* reads but for the text of a log line, and the rows here do not hold
\* them.

\* the action select of the form
EditAction ==
  /\ manager.selectedIdx < Len(manager.draft)
  /\ \E value \in TypedActions :
       ManagerEdit("patchSelected",
                   patchSelected(manager, [action |-> normalizeAction(value)]))

\* the sending_error_code box of the form
EditSendingErrorCode ==
  /\ manager.selectedIdx < Len(manager.draft)
  /\ \E text \in TypedCodes :
       ManagerEdit("patchSelected",
                   patchSelected(manager, [sending_error_code |-> TypedCode(text)]))

\* the expected_error_code box of the form
EditExpectedErrorCode ==
  /\ manager.selectedIdx < Len(manager.draft)
  /\ \E text \in TypedCodes :
       ManagerEdit("patchSelected",
                   patchSelected(manager, [expected_error_code |-> TypedCode(text)]))

\* text typed into the post box
TypePost ==
  \E text \in {TypedPost} \cup BadPostTexts :
    ManagerEdit("setPostJson", setPostJson(manager, text))

\* the Apply button of the post box
ApplyPost == ManagerEdit("handleApplyPostJson", handleApplyPostJson(manager))

\* The Save button of the manager: nothing while a run is shown (disabled);
\* the error is shown while the post box holds no JSON object; otherwise
\* the list is replaced through handleSaveScenarios and the manager closes.
ManagerSave ==
  /\ manager.open
  /\ UNCHANGED <<settings, isRunning, loadingScenarios, cancelRef, runs,
                 loads, template, initializedFromTemplateRef, clock, events>>
  /\ IF isRunning
       THEN /\ last' = Step("handleSave", FALSE, -1)
            /\ UNCHANGED <<manager, scenarios, logs>>
     ELSE IF ~handleSave(manager).saved
       THEN /\ manager' = [manager EXCEPT
                             !.formError = parseError(manager.postJson)]
            /\ last' = Step("handleSave", FALSE, -1)
            /\ UNCHANGED <<scenarios, logs>>
     ELSE /\ scenarios' = handleSaveScenarios(handleSave(manager).next)
          /\ logs' = addLog(logs, "info", "saved", -1)
          /\ manager' = Counted(ClosedManager)
          /\ last' = Step("handleSave", TRUE, -1)

\* the Close and Cancel buttons of the manager
onClose ==
  /\ manager.open
  /\ manager' = Counted(ClosedManager)
  /\ last' = Step("onClose", TRUE, -1)
  /\ UNCHANGED <<settings, scenarios, logs, isRunning, loadingScenarios,
                 cancelRef, runs, loads, template,
                 initializedFromTemplateRef, clock, events>>

Next ==
  \/ handleStart
  \/ \E row \in 1..Len(scenarios) : handleRunScenario(row)
  \/ stopQueue
  \/ ResumeRun
  \/ \E e \in SettingsEdits : handleSettingsChange(e[1], e[2])
  \/ handleLoadScenarios
  \/ \E ok \in BOOLEAN : loadTemplateScenarios(ok)
  \/ onOpenScenarioManager
  \/ SelectRow
  \/ AddRow
  \/ DeleteRow
  \/ EditAction
  \/ EditSendingErrorCode
  \/ EditExpectedErrorCode
  \/ TypePost
  \/ ApplyPost
  \/ ManagerSave
  \/ onClose
  \/ handleClearPanelLogs

Spec == Init /\ [][Next]_vars

\* ------------------------------------------------------------------------
\* Runs of one scenario against every kind of reply
\* ------------------------------------------------------------------------
\* what the error field of a response may hold
ErrorValues ==
  {Undef, Null, Num(0), Num(5), Inf, Bool(FALSE), Str(<<"0">>),
   Str(<<"\n", "5", " ">>), Str(<<>>), Str(<<" ">>), Str(<<"x">>),
   Str(<<"5", "e", "0">>), Str(<<"0", "x", "5">>), Str(<<"1", ".", "5">>),
   Str(<<"I", "n", "f", "i", "n", "i", "t", "y">>),
   Num(1000000000), Str(<<"1", "e", "9">>)}

SuccessValues == {Undef, Bool(FALSE), Bool(TRUE), Num(0)}

MessageValues == {Undef, Str(<<"m">>)}

PrepareIdValues == {Undef, Str(<<"4">>)}

\* statuses on both sides of Response.ok
Statuses == {199, 200, 299, 300, 500}

WideBodies ==
  {Body("object", RespOf(success, error, message, prepareId)) :
     success \in SuccessValues, error \in ErrorValues,
     message \in MessageValues, prepareId \in PrepareIdValues}
  \cup {Body(kind, NoRespFields) :
          kind \in {"array", "scalar", "text", "empty"}}
  \cup {ArrayBody(<<Num(7)>>)}

WideReplies ==
  {NetFail} \cup {Reply(status, body) : status \in Statuses, body \in WideBodies}

\* a complete that expects the code 1000000000
CompleteBillion ==
  Scenario("complete", Num(0), Num(1000000000), PostOf(<<"5">>, <<"1">>))

\* lists of one scenario: a prepare that expects 0, a complete that expects
\* 5, a complete that expects 10^9
WideLists ==
  {mapScenarioDefinitionsToTestScenarios(<<PreparePlain>>),
   mapScenarioDefinitionsToTestScenarios(<<Complete11994>>),
   mapScenarioDefinitionsToTestScenarios(<<CompleteBillion>>)}

InitWide ==
  /\ settings = ReadySettings
  /\ scenarios = <<>>
  /\ template \in WideLists
  /\ logs = <<>>
  /\ isRunning = FALSE
  /\ cancelRef = FALSE
  /\ runs = <<>>
  /\ loads = 1
  /\ loadingScenarios = TRUE
  /\ initializedFromTemplateRef = (scenarios = <<>>)
  /\ manager = ClosedManager
  /\ clock = 0
  /\ events = 0
  /\ last = Step("mount", TRUE, -1)

ResumeWide == Resume(WideReplies)

NextWide ==
  \/ loadTemplateScenarios(TRUE)
  \/ \E row \in 1..Len(scenarios) : handleRunScenario(row)
  \/ ResumeWide
  \/ handleClearPanelLogs

SpecWide == InitWide /\ [][NextWide]_vars

\* ------------------------------------------------------------------------
\* Runs over template files that are arrays of anything
\* ------------------------------------------------------------------------
\* a definition without a post
PrepareNoPost ==
  [Scenario("prepare", Num(0), Num(0), NoFields) EXCEPT !.hasPost = FALSE]

\* the arrays /template.json may hold: the prefixes of these sequences, up
\* to MaxScenarios long
UntypedLists ==
  UNION {{mapScenarioDefinitionsToTestScenarios(SubSeq(f, 1, n)) :
            n \in 1..(IF Len(f) < MaxScenarios THEN Len(f)
                      ELSE MaxScenarios)} :
           f \in {<<PreparePlain, PrepareNoPost, CompletePlain>>,
                  <<PrepareNoPost>>,
                  <<PreparePlain, CompletePlain, Complete11994>>}}

InitUntyped ==
  /\ settings = ReadySettings
  /\ scenarios = <<>>
  /\ template \in UntypedLists
  /\ logs = <<>>
  /\ isRunning = FALSE
  /\ cancelRef = FALSE
  /\ runs = <<>>
  /\ loads = 1
  /\ loadingScenarios = TRUE
  /\ initializedFromTemplateRef = (scenarios = <<>>)
  /\ manager = ClosedManager
  /\ clock = 0
  /\ events = 0
  /\ last = Step("mount", TRUE, -1)

NextUntyped ==
  \/ loadTemplateScenarios(TRUE)
  \/ handleStart
  \/ \E row \in 1..Len(scenarios) : handleRunScenario(row)
  \/ stopQueue
  \/ ResumeRun
  \/ onOpenScenarioManager
  \/ SelectRow
  \/ AddRow
  \/ DeleteRow
  \/ EditAction
  \/ EditSendingErrorCode
  \/ EditExpectedErrorCode
  \/ TypePost
  \/ ApplyPost
  \/ ManagerSave
  \/ onClose
  \/ handleClearPanelLogs

\* the step in which a request in flight is answered or fails: ResumeRun is
\* enabled exactly when an invocation waits for its request, and its steps
\* are the steps that move the clock
RequestAnswered == runs # <<>> /\ clock' = Later

\* Weak fairness of ResumeRun: every request in flight is answered or fails
\* in the end.
RequestsSettle == WF_clock(RequestAnswered)

SpecUntyped == InitUntyped /\ [][NextUntyped]_vars /\ RequestsSettle

\* ------------------------------------------------------------------------
\* Runs that follow a stopped run
\* ------------------------------------------------------------------------
InitStop ==
  /\ settings = ReadySettings
  /\ scenarios = <<>>
  /\ template \in ScenarioLists
  /\ logs = <<>>
  /\ isRunning = FALSE
  /\ cancelRef = FALSE
  /\ runs = <<>>
  /\ loads = 1
  /\ loadingScenarios = TRUE
  /\ initializedFromTemplateRef = (scenarios = <<>>)
  /\ manager = ClosedManager
  /\ clock = 0
  \* three user events are left to a behaviour besides its stops: a run,
  \* the run after it, and an attempt during that one
  /\ events = MaxEvents - 3
  /\ last = Step("mount", TRUE, -1)

NextStop ==
  \/ loadTemplateScenarios(TRUE)
  \/ handleStart
  \/ \E row \in 1..Len(scenarios) : handleRunScenario(row)
  \/ stopQueue
  \/ stopQueueOnce
  \/ ResumeRun
  \/ handleClearPanelLogs

SpecStop == InitStop /\ [][NextStop]_vars

\* ------------------------------------------------------------------------
\* Runs whose requests raise
\* ------------------------------------------------------------------------
\* a request that fails on the network, a reply whose body cannot be read,
\* replies outside 2xx and a 2xx reply, all that have a body with a
\* merchant_prepare_id
RaiseReplies ==
  {NetFail, BodyFail(200),
   Reply(500, Body("object", RespOf(Undef, Num(0), Undef, Str(<<"4">>)))),
   Reply(302, Body("object", RespOf(Undef, Num(0), Undef, Str(<<"4">>)))),
   Reply(200, Body("object", RespOf(Undef, Num(0), Undef,
                                    Str(<<"\t", "5", "5", "\n">>))))}

\* the prepare URL of the second settings normalises to the empty URL
InitRaise ==
  /\ settings \in {ReadySettings,
                   [ReadySettings EXCEPT !.prepareUrl = <<" ">>]}
  /\ scenarios = <<>>
  /\ template \in ScenarioLists
  /\ logs = <<>>
  /\ isRunning = FALSE
  /\ cancelRef = FALSE
  /\ runs = <<>>
  /\ loads = 1
  /\ loadingScenarios = TRUE
  /\ initializedFromTemplateRef = (scenarios = <<>>)
  /\ manager = ClosedManager
  /\ clock = 0
  /\ events = 0
  /\ last = Step("mount", TRUE, -1)

ResumeRaise == Resume(RaiseReplies)

NextRaise ==
  \/ loadTemplateScenarios(TRUE)
  \/ handleStart
  \/ \E row \in 1..Len(scenarios) : handleRunScenario(row)
  \/ ResumeRaise
  \/ handleClearPanelLogs

SpecRaise == InitRaise /\ [][NextRaise]_vars

\* ------------------------------------------------------------------------
\* Runs of three scenarios: the chain and the table over a whole run
\* ------------------------------------------------------------------------
\* a prepare with another correlation id and no merchant_prepare_id
Prepare27147Plain == Scenario("prepare", Num(0), Num(0), PostOf(id27147, <<"0">>))

\* the complete of the transaction 18409: the correlation id of
\* PreparePlain, and no merchant_prepare_id
Complete18409 ==
  Scenario("complete", Num(0), Num(0),
    [PostOf(id18409, <<"1">>) EXCEPT !["merchant_prepare_id"] = Str(<<>>)])

\* template files of three scenarios: a prepare between a prepare and a
\* complete, the prepare and the complete of one transaction before another
\* complete, and a complete between a prepare and a complete
ChainLists ==
  {mapScenarioDefinitionsToTestScenarios(
     <<PreparePlain, Prepare27147Plain, CompletePlain>>),
   mapScenarioDefinitionsToTestScenarios(
     <<PreparePlain, Complete18409, CompletePlain>>),
   mapScenarioDefinitionsToTestScenarios(
     <<PreparePlain, Complete11994, CompletePlain>>)}

\* every way a scenario ends: the network fails, a status outside 2xx, a
\* body that is no JSON, success: false, a code that cannot be determined,
\* another code than 0, and the code 0; with a merchant_prepare_id that is
\* a text, a blank text, a number, or absent
ChainReplies ==
  {NetFail,
   Reply(500, Body("object", RespOf(Undef, Num(0), Undef, Str(<<"4">>)))),
   Reply(200, Body("text", NoRespFields)),
   Reply(200, Body("object", RespOf(Bool(FALSE), Num(0), Undef,
                                    Str(<<"6">>)))),
   Reply(200, Body("object", RespOf(Undef, Null, Undef, Str(<<" ">>)))),
   Reply(200, Body("object", RespOf(Undef, Num(5), Undef, Undef))),
   Reply(200, Body("object", RespOf(Undef, Str(<<"0">>), Undef,
                                    Str(<<"\t", "5", "5", "\n">>)))),
   Reply(200, Body("object", RespOf(Undef, Num(0), Undef, Num(7))))}

\* The page opens on an empty store and loads a template of three
\* scenarios, or on the list of an earlier session. One user event is left
\* to a behaviour, the start of one run, and the Stop button during it.
InitChain ==
  /\ settings = ReadySettings
  /\ scenarios \in StoredScenarioLists
  /\ template \in ChainLists
  /\ logs = <<>>
  /\ isRunning = FALSE
  /\ cancelRef = FALSE
  /\ runs = <<>>
  /\ loads = IF scenarios = <<>> THEN 1 ELSE 0
  /\ loadingScenarios = (scenarios = <<>>)
  /\ initializedFromTemplateRef = (scenarios = <<>>)
  /\ manager = ClosedManager
  /\ clock = 0
  /\ events = MaxEvents - 1
  /\ last = Step("mount", TRUE, -1)

ResumeChain == Resume(ChainReplies)

NextChain ==
  \/ loadTemplateScenarios(TRUE)
  \/ handleStart
  \/ \E row \in 1..Len(scenarios) : handleRunScenario(row)
  \/ stopQueueOnce
  \/ ResumeChain
  \/ handleClearPanelLogs

SpecChain == InitChain /\ [][NextChain]_vars

\* ------------------------------------------------------------------------
\* A template load that completes during a run
\* ------------------------------------------------------------------------
\* The page opens on the list of an earlier session; the template file is
\* shorter than that list. The Load button and a start are the user events
\* of a behaviour, and the Stop button during the run.
InitRace ==
  /\ settings = ReadySettings
  /\ scenarios \in StoredScenarioLists \ {<<>>}
  /\ template \in {list \in ScenarioLists : Len(list) <= 1}
  /\ logs = <<>>
  /\ isRunning = FALSE
  /\ cancelRef = FALSE
  /\ runs = <<>>
  /\ loads = 0
  /\ loadingScenarios = FALSE
  /\ initializedFromTemplateRef = FALSE
  /\ manager = ClosedManager
  /\ clock = 0
  /\ events = 0
  /\ last = Step("mount", TRUE, -1)

NextRace ==
  \/ handleLoadScenarios
  \/ \E ok \in BOOLEAN : loadTemplateScenarios(ok)
  \/ handleStart
  \/ \E row \in 1..Len(scenarios) : handleRunScenario(row)
  \/ stopQueueOnce
  \/ ResumeRun

SpecRace == InitRace /\ [][NextRace]_vars

\* ------------------------------------------------------------------------
\* Calls of buildRequestContext on its own
\* ------------------------------------------------------------------------
\* the placeholder {{response.18409.merchant_prepare_id}}
PrepareIdOf18409 ==
  <<"{", "{">> \o tResponse \o <<".">> \o id18409 \o <<".">>
  \o KeyText["merchant_prepare_id"] \o <<"}", "}">>

\* what the click_trans_id of a post may hold
BuilderClickTransIds ==
  {Str(id26216), Str(<<" ">> \o id26216), Str(id11994), Str(id18409),
   Str(<<"5">>), Str(<<" ">> \o id27147)}

\* what the merchant_prepare_id of a post may hold
BuilderPrepareIds ==
  {Undef, Null, Str(<<>>), Str(<<" ">>), Str(<<"\t", "7", " ">>), Num(7),
   Str(PrepareIdOf18409)}

\* what the action of a post may hold
BuilderActions == {Undef, Str(<<"1">>)}

BuilderPosts ==
  {[NoFields EXCEPT !["click_trans_id"] = id, !["merchant_prepare_id"] = p,
                    !["action"] = a] :
     id \in BuilderClickTransIds, p \in BuilderPrepareIds,
     a \in BuilderActions}
  \cup {defaultPostPayload}

BuilderScenarios ==
  {Scenario(action, Num(0), Num(0), post) :
     action \in {"prepare", "complete"}, post \in BuilderPosts}

\* the chain state and the reference table a call may be given
BuilderChains ==
  [previousMerchantPrepareId : {<<>>, <<"9">>},
   merchantPrepareIdByClickTransId :
     {EmptyMap, Put(EmptyMap, id18409, <<"3">>),
      Put(EmptyMap, <<"5">>, <<"3">>)},
   scenarioReferences :
     {EmptyMap,
      Put(EmptyMap, id18409,
          [post |-> NoFields, request |-> PayloadUndef,
           response |-> RespObj(RespOf(Undef, Num(0), Undef,
                                       Str(<<"4">>)))])},
   random : RandomIds]

NoContext ==
  [url |-> <<>>, payload |-> NoFields, merchantPrepareIdUsed |-> <<>>]

\* the scenario is scenarios[1], the settings are settings, and last holds
\* the other arguments of the call and, once it is made, what it returned
InitBuilder ==
  /\ settings \in {ReadySettings, defaultSettings}
  /\ scenarios \in {<<scenario>> : scenario \in BuilderScenarios}
  /\ template = <<>>
  /\ logs = <<>>
  /\ isRunning = FALSE
  /\ cancelRef = FALSE
  /\ runs = <<>>
  /\ loads = 0
  /\ loadingScenarios = FALSE
  /\ initializedFromTemplateRef = (scenarios = <<>>)
  /\ manager = ClosedManager
  /\ clock = 0
  /\ events = 0
  /\ last \in {[op |-> "mount", acted |-> FALSE, arg |-> chain,
                 result |-> NoContext] : chain \in BuilderChains}

CallBuilder ==
  /\ last.op = "mount"
  /\ last' = [last EXCEPT
       !.op = "buildRequestContext", !.acted = TRUE,
       !.result =
         buildRequestContext(scenarios[1], settings,
           last.arg.previousMerchantPrepareId,
           last.arg.merchantPrepareIdByClickTransId,
           last.arg.scenarioReferences, last.arg.random, clock)]
  /\ UNCHANGED <<manager, settings, scenarios, logs, isRunning, loadingScenarios,
                 cancelRef, runs, loads, template,
                 initializedFromTemplateRef, clock, events>>

SpecBuilder == InitBuilder /\ [][CallBuilder]_vars

\* ------------------------------------------------------------------------
\* resolveTemplateValue called on its own
\* ------------------------------------------------------------------------
\* the longest text of braces, letters, blanks and dots given to the resolver
MaxText == 4

\* the segments of a path joined by dots
RECURSIVE PathText(_)
PathText(path) ==
  IF path = <<>> THEN <<>>
  ELSE IF Len(path) = 1 THEN path[1]
  ELSE path[1] \o <<".">> \o PathText(Tail(path))

\* the tables a call may be given: none; 18409 answered with an object and
\* 5 sent nowhere yet; 18409 answered with the array [], or with [1,2]
ResolverTables ==
  {EmptyMap,
   Put(Put(EmptyMap, id18409,
           [post |-> PreparePlain.post,
            request |-> PayloadOf(PreparePlain.post),
            response |-> RespObj(RespOf(Undef, Num(0), Undef,
                                        Str(<<"4">>)))]),
       <<"5">>,
       [post |-> CompletePlain.post, request |-> PayloadUndef,
        response |-> RespNull]),
   Put(EmptyMap, id18409,
       [post |-> PreparePlain.post, request |-> PayloadUndef,
        response |-> RespArr(<<>>)]),
   Put(EmptyMap, id18409,
       [post |-> PreparePlain.post, request |-> PayloadUndef,
        response |-> RespArr(<<Num(1), Num(2)>>)])}

ResolverIds == {id18409, <<"5">>, <<"1">>}

\* the sources a placeholder may name; the last one is no source
ResolverSources == {tResponse, tRequest, tPost, <<"x">>}

\* the paths a placeholder may name, as their segments
ResolverPaths ==
  {<<KeyText["merchant_prepare_id"]>>, <<KeyText["click_trans_id"]>>,
   <<KeyText["error"]>>, <<KeyText["message"]>>, <<<<"x">>>>, <<<<>>>>,
   <<<<>>, KeyText["merchant_prepare_id"]>>,
   <<KeyText["merchant_prepare_id"], <<>>>>,
   <<KeyText["merchant_prepare_id"], <<"x">>>>,
   <<<<"x">>, KeyText["merchant_prepare_id"]>>,
   <<tConstructor>>, <<tProto, <<"x">>>>, <<tLength>>, <<<<"0">>>>,
   <<<<"p", "u", "s", "h">>>>,
   <<KeyText["error_note"]>>}

\* the text between the braces of a placeholder: its short form or its
\* scenario form
InnerText(form, source, id, path, pad) ==
  pad
  \o (IF form = "scenario"
        THEN tScenario \o <<".">> \o id \o <<".">> \o source
        ELSE source \o <<".">> \o id)
  \o <<".">> \o PathText(path) \o pad

\* the text of a placeholder
PlaceholderText(form, source, id, path, pad) ==
  <<"{", "{">> \o InnerText(form, source, id, path, pad) \o <<"}", "}">>

\* one placeholder after the text prefix; between and inner list, for each
\* placeholder of rawValue, the text before it and the text in its braces
Placeholders ==
  {[form |-> form, source |-> source, id |-> id, path |-> path,
    prefix |-> prefix, between |-> <<prefix>>,
    inner |-> <<InnerText(form, source, id, path, pad)>>,
    rawValue |-> prefix \o PlaceholderText(form, source, id, path, pad)] :
     form \in {"short", "scenario"}, source \in ResolverSources,
     id \in ResolverIds, path \in ResolverPaths, pad \in {<<>>, <<" ">>},
     prefix \in {<<>>, <<"a">>}}

TextChars == {"{", "}", "a", " ", "."}

\* every text of at most MaxText of these characters
Texts == UNION {[1..n -> TextChars] : n \in 0..MaxText}

PlainTexts ==
  {[form |-> "none", source |-> <<>>, id |-> <<>>, path |-> <<>>,
    prefix |-> <<>>, between |-> <<>>, inner |-> <<>>,
    rawValue |-> text] : text \in Texts}

\* the inner texts of the placeholders that come in pairs: fields that are
\* present, absent, and one (the error_note of the post of 5) whose value
\* is itself the text of a placeholder
PairParts ==
  {InnerText(form, source, id, path, <<>>) :
     form \in {"short", "scenario"}, source \in {tResponse, tPost},
     id \in {id18409, <<"5">>},
     path \in {<<KeyText["merchant_prepare_id"]>>,
               <<KeyText["error_note"]>>}}

\* two placeholders in one text, with mid between them; an opening brace
\* right before the second one belongs to the second match
Pairs ==
  {[form |-> "pair", source |-> <<>>, id |-> <<>>, path |-> <<>>,
    prefix |-> <<>>, between |-> <<<<>>, mid>>,
    inner |-> <<first, lead \o second>>,
    rawValue |-> <<"{", "{">> \o first \o <<"}", "}">> \o mid
                 \o <<"{", "{">> \o lead \o second \o <<"}", "}">>] :
     first \in PairParts, second \in PairParts,
     mid \in {<<>>, <<"a">>, <<"}">>}, lead \in {<<>>, <<"{">>}}

\* last holds the arguments of the call and, once it is made, what it
\* returned
InitResolver ==
  /\ settings = defaultSettings
  /\ scenarios = <<>>
  /\ template = <<>>
  /\ logs = <<>>
  /\ isRunning = FALSE
  /\ cancelRef = FALSE
  /\ runs = <<>>
  /\ loads = 0
  /\ loadingScenarios = FALSE
  /\ initializedFromTemplateRef = (scenarios = <<>>)
  /\ manager = ClosedManager
  /\ clock = 0
  /\ events = 0
  /\ last \in {[op |-> "mount", acted |-> FALSE, arg |-> arg,
                 references |-> references, result |-> <<>>] :
                  arg \in Placeholders \cup PlainTexts \cup Pairs,
                  references \in ResolverTables}

CallResolver ==
  /\ last.op = "mount"
  /\ last' = [last EXCEPT
       !.op = "resolveTemplateValue", !.acted = TRUE,
       !.result = resolveTemplateValue(last.arg.rawValue, last.references)]
  /\ UNCHANGED <<manager, settings, scenarios, logs, isRunning, loadingScenarios,
                 cancelRef, runs, loads, template,
                 initializedFromTemplateRef, clock, events>>

SpecResolver == InitResolver /\ [][CallResolver]_vars

\* ------------------------------------------------------------------------
\* sendScenarioRequest called on its own, with its audit trail
\* ------------------------------------------------------------------------
maxHttpAuditEntries == 500

\* an entry of the trail: the request it belongs to, its direction and, for
\* a response, the status
HttpAuditEntry(requestId, direction, status) ==
  [requestId |-> requestId, direction |-> direction, status |-> status]

\* appendHttpAuditEntry: the stored entries and the new one, the latest
\* maxHttpAuditEntries of them; nothing changes when the storage refuses
\* the write
appendHttpAuditEntry(stored, entry, quotaExceeded) ==
  LET all == Append(stored, entry)
      next == IF Len(all) <= maxHttpAuditEntries THEN all
              ELSE SubSeq(all, Len(all) - maxHttpAuditEntries + 1, Len(all))
  IN  IF quotaExceeded THEN stored ELSE next

\* the trails a call may find: none, the two entries of an earlier request,
\* and a full one
AuditTrails ==
  {<<>>,
   <<HttpAuditEntry(1, "request", 0), HttpAuditEntry(1, "response", 200)>>,
   [i \in 1..maxHttpAuditEntries |->
      HttpAuditEntry(i, IF i % 2 = 1 THEN "request" ELSE "error", 0)]}

\* what the network may answer to the call
AuditReplies ==
  {NetFail, BodyFail(200), BodyFail(500),
   Reply(200, Body("object", RespOf(Undef, Num(0), Undef, Undef))),
   Reply(200, Body("text", NoRespFields)),
   Reply(500, Body("object", RespOf(Undef, Num(0), Str(<<"x">>), Undef))),
   Reply(302, NoBody)}

\* last holds the arguments of the call, the trail in the storage, the
\* number of network calls made and, once the call is over, its result
InitAudit ==
  /\ settings = defaultSettings
  /\ scenarios = <<>>
  /\ template = <<>>
  /\ logs = <<>>
  /\ isRunning = FALSE
  /\ cancelRef = FALSE
  /\ runs = <<>>
  /\ loads = 0
  /\ loadingScenarios = FALSE
  /\ initializedFromTemplateRef = (scenarios = <<>>)
  /\ manager = ClosedManager
  /\ clock = 0
  /\ events = 0
  /\ last \in {[op |-> "mount", acted |-> FALSE,
                 arg |-> [url |-> url, reply |-> reply,
                          requestId |-> requestId,
                          quotaExceeded |-> quotaExceeded],
                 audit |-> audit, fetches |-> 0,
                 result |-> Result(RespNull, NoBody, 0)] :
                  url \in {<<>>, <<"u">>}, reply \in AuditReplies,
                  requestId \in {1, 2}, quotaExceeded \in BOOLEAN,
                  audit \in AuditTrails}

\* sendScenarioRequest up to its await of fetch: the check of the URL, the
\* request entry and the network call
SendRequest ==
  /\ last.op = "mount"
  /\ last' =
       IF last.arg.url = <<>>
         THEN [last EXCEPT !.op = "sendScenarioRequest", !.acted = TRUE,
                           !.result =
                             sendScenarioRequest(<<>>, last.arg.reply)]
         ELSE [last EXCEPT
                 !.op = "fetch",
                 !.audit = appendHttpAuditEntry(
                             last.audit,
                             HttpAuditEntry(last.arg.requestId, "request", 0),
                             last.arg.quotaExceeded),
                 !.fetches = 1]
  /\ UNCHANGED <<manager, settings, scenarios, logs, isRunning, loadingScenarios,
                 cancelRef, runs, loads, template,
                 initializedFromTemplateRef, clock, events>>

\* sendScenarioRequest from the answer of fetch on: the error entry when
\* fetch rejected, the response entry once the body is read, and the result
ReceiveReply ==
  /\ last.op = "fetch"
  /\ last' =
       [last EXCEPT
          !.op = "sendScenarioRequest", !.acted = TRUE,
          !.audit =
            CASE last.arg.reply.net = "fail" ->
                   appendHttpAuditEntry(
                     last.audit,
                     HttpAuditEntry(last.arg.requestId, "error", 0),
                     last.arg.quotaExceeded)
              [] last.arg.reply.net = "body" -> last.audit
              [] OTHER ->
                   appendHttpAuditEntry(
                     last.audit,
                     HttpAuditEntry(last.arg.requestId, "response",
                                    last.arg.reply.status),
                     last.arg.quotaExceeded),
          !.result = sendScenarioRequest(last.arg.url, last.arg.reply)]
  /\ UNCHANGED <<manager, settings, scenarios, logs, isRunning, loadingScenarios,
                 cancelRef, runs, loads, template,
                 initializedFromTemplateRef, clock, events>>

\* what the network may answer to the load of the template: the array of
\* the template, or no such thing
LoadReplies ==
  {NetFail, BodyFail(200), Reply(500, NoBody),
   Reply(200, Body("text", NoRespFields)),
   Reply(200, Body("object", NoRespFields)),
   Reply(200, ArrayBody(<<>>))}

\* The Load button with the trail: loadTemplateScenarios up to its await of
\* fetch writes the request entry of the load. The ids of requests are
\* drawn from the clock and a random number; the load has the id 0, which
\* no call has.
loadTemplateScenariosSent ==
  /\ Spent < MaxEvents
  /\ ~loadingScenarios /\ ~isRunning
  /\ events' = events + 1
  /\ loadingScenarios' = TRUE
  /\ loads' = loads + 1
  /\ last' = [last EXCEPT
                !.audit = appendHttpAuditEntry(last.audit,
                                               HttpAuditEntry(0, "request", 0),
                                               last.arg.quotaExceeded)]
  /\ UNCHANGED <<manager, settings, scenarios, logs, isRunning, cancelRef,
                 runs, template, initializedFromTemplateRef, clock>>

\* the trail after the answer to the load: the error entry when fetch
\* rejected, nothing when the body could not be read, else the response
\* entry
loadAnswered(stored, reply, quotaExceeded) ==
  CASE reply.net = "fail" ->
         appendHttpAuditEntry(stored, HttpAuditEntry(0, "error", 0),
                              quotaExceeded)
    [] reply.net = "body" -> stored
    [] OTHER ->
         appendHttpAuditEntry(stored,
                              HttpAuditEntry(0, "response", reply.status),
                              quotaExceeded)

\* whether the load got the array of the template
loadParsed(reply) ==
  reply.net = "reply" /\ IsOk(reply.status) /\ reply.body.kind = "array"

\* loadTemplateScenarios from the answer of fetch on, with the trail: a
\* body of a good status that is no JSON array adds an error entry; the
\* list is replaced when the array arrived. The mount effect has run, so an
\* empty list loads nothing again.
loadTemplateScenariosAnswered(reply) ==
  /\ loads > 0
  /\ loads' = loads - 1
  /\ loadingScenarios' = FALSE
  /\ last' =
       [last EXCEPT
          !.audit =
            IF reply.net = "reply" /\ IsOk(reply.status) /\ ~loadParsed(reply)
              THEN appendHttpAuditEntry(
                     loadAnswered(last.audit, reply, last.arg.quotaExceeded),
                     HttpAuditEntry(0, "error", 0), last.arg.quotaExceeded)
              ELSE loadAnswered(last.audit, reply, last.arg.quotaExceeded)]
  /\ IF loadParsed(reply)
       THEN /\ scenarios' = mapScenarioDefinitionsToTestScenarios(template)
            /\ manager' =
                 ListSeen(mapScenarioDefinitionsToTestScenarios(template))
            /\ logs' = addLog(logs, "info", "loaded", Len(template))
       ELSE /\ logs' = addLog(logs, "error", "loadFailed", -1)
            /\ UNCHANGED <<manager, scenarios>>
  /\ UNCHANGED <<settings, isRunning, cancelRef, runs, template,
                 initializedFromTemplateRef, clock, events>>

\* the Clear button of the log panel with the trail: handleClearPanelLogs
\* empties the panel and removes the stored trail
clearHttpAuditEntries ==
  /\ Spent < MaxEvents
  /\ logs # <<>>
  /\ events' = events + 1
  /\ logs' = <<>>
  /\ last' = [last EXCEPT !.audit = <<>>]
  /\ UNCHANGED <<manager, settings, scenarios, isRunning, loadingScenarios,
                 cancelRef, runs, loads, template,
                 initializedFromTemplateRef, clock>>

NextAudit ==
  \/ SendRequest
  \/ ReceiveReply
  \/ loadTemplateScenariosSent
  \/ \E reply \in LoadReplies : loadTemplateScenariosAnswered(reply)
  \/ clearHttpAuditEntries

SpecAudit == InitAudit /\ [][NextAudit]_vars

\* ------------------------------------------------------------------------
\* The relay of the development server
\* ------------------------------------------------------------------------
redirectStatusCodes == {301, 302, 303, 307, 308}

maxUpstreamRedirects == 8

\* a URL: its origin and its path
RelayUrl(host, path) == [host |-> host, path |-> path]

\* the Location header of a response: absent, blank, an absolute URL, a
\* path, or a text that new URL() rejects
Location(kind, host, path) == [kind |-> kind, host |-> host, path |-> path]

RelayLocations ==
  {Location("none", "", ""), Location("blank", "", ""),
   Location("absolute", "b", "/"), Location("path", "", "/x"),
   Location("invalid", "", "")}

\* what a fetch of the relay gives: a rejection, or a response with a
\* status, a Location and a body that can be read or not
UpstreamFail ==
  [net |-> "fail", status |-> 0, location |-> Location("none", "", ""),
   readable |-> FALSE]

UpstreamResponses ==
  {UpstreamFail} \cup
  [net : {"reply"}, status : redirectStatusCodes \cup {200, 300, 500},
   location : RelayLocations, readable : BOOLEAN]

\* Boolean(location && location.trim())
hasRedirectLocation(location) == location.kind \notin {"none", "blank"}

\* new URL(location, currentUrl)
resolveLocation(location, currentUrl) ==
  [threw |-> location.kind = "invalid",
   url |-> CASE location.kind = "absolute" ->
                  RelayUrl(location.host, location.path)
             [] location.kind = "path" ->
                  RelayUrl(currentUrl.host, location.path)
             [] OTHER -> currentUrl]

\* the locals of a call of requestUpstreamWithPostRedirects, the number of
\* POST requests it has issued, and how it ended
UpstreamCall(url) ==
  [currentUrl |-> url, redirectChain |-> <<>>, i |-> 0, posts |-> 1,
   outcome |-> "pending"]

\* a loop that makes one pass more
loopCondition_inclusive(i) == i <= maxUpstreamRedirects

\* i < maxUpstreamRedirects
loopCondition(i) == i < maxUpstreamRedirects

\* one pass of the loop from the answer of its fetch on, and the fetch of
\* the next pass
requestUpstreamWithPostRedirects(call, response) ==
  IF response.net = "fail" THEN [call EXCEPT !.outcome = "fetchFailed"]
  ELSE IF response.status \notin redirectStatusCodes
          \/ ~hasRedirectLocation(response.location)
    THEN [call EXCEPT !.outcome = "returned"]
  ELSE IF resolveLocation(response.location, call.currentUrl).threw
    THEN [call EXCEPT !.outcome = "invalidUrl"]
  ELSE IF loopCondition(call.i + 1)
    THEN [call EXCEPT
            !.currentUrl =
              resolveLocation(response.location, call.currentUrl).url,
            !.redirectChain =
              Append(@, resolveLocation(response.location,
                                        call.currentUrl).url),
            !.i = @ + 1, !.posts = @ + 1]
  ELSE [call EXCEPT
          !.currentUrl =
            resolveLocation(response.location, call.currentUrl).url,
          !.redirectChain =
            Append(@, resolveLocation(response.location,
                                      call.currentUrl).url),
          !.i = @ + 1, !.outcome = "tooManyRedirects"]

NoAnswer ==
  [statusCode |-> 0, message |-> "", finalUrl |-> RelayUrl("", ""),
   redirected |-> FALSE]

\* what the middleware answers once the call has ended
proxyAnswer(call, response) ==
  IF call.outcome = "returned" /\ response.readable
    THEN [statusCode |-> response.status, message |-> "",
          finalUrl |-> call.currentUrl,
          redirected |-> Len(call.redirectChain) > 0]
    ELSE [NoAnswer EXCEPT
            !.statusCode = 502,
            !.message = IF call.outcome = "returned" THEN "bodyFailed"
                        ELSE call.outcome]

\* the target URL of the proxied call is last.arg
InitRelay ==
  /\ settings = defaultSettings
  /\ scenarios = <<>>
  /\ template = <<>>
  /\ logs = <<>>
  /\ isRunning = FALSE
  /\ cancelRef = FALSE
  /\ runs = <<>>
  /\ loads = 0
  /\ loadingScenarios = FALSE
  /\ initializedFromTemplateRef = (scenarios = <<>>)
  /\ manager = ClosedManager
  /\ clock = 0
  /\ events = 0
  /\ last \in {[op |-> "mount", acted |-> FALSE, arg |-> url,
                 call |-> [UpstreamCall(url) EXCEPT !.posts = 0],
                 response |-> UpstreamFail, res |-> NoAnswer] :
                  url \in {RelayUrl("a", "/"), RelayUrl("b", "/x")}}

\* the middleware takes a valid request and the call issues its first POST
ProxyRequest ==
  /\ last.op = "mount"
  /\ last' = [last EXCEPT !.op = "fetch", !.call = UpstreamCall(last.arg)]
  /\ UNCHANGED <<manager, settings, scenarios, logs, isRunning, loadingScenarios,
                 cancelRef, runs, loads, template,
                 initializedFromTemplateRef, clock, events>>

\* the upstream answers the POST in flight, or the fetch rejects
UpstreamAnswers ==
  /\ last.op = "fetch"
  /\ \E response \in UpstreamResponses :
       \E call \in {requestUpstreamWithPostRedirects(last.call, response)} :
         last' =
           IF call.outcome = "pending"
             THEN [last EXCEPT !.call = call, !.response = response]
             ELSE [last EXCEPT !.op = "proxy", !.acted = TRUE,
                               !.call = call, !.response = response,
                               !.res = proxyAnswer(call, response)]
  /\ UNCHANGED <<manager, settings, scenarios, logs, isRunning, loadingScenarios,
                 cancelRef, runs, loads, template,
                 initializedFromTemplateRef, clock, events>>

NextRelay == ProxyRequest \/ UpstreamAnswers

SpecRelay == InitRelay /\ [][NextRelay]_vars

\* ------------------------------------------------------------------------
\* Outcome of a scenario
\* ------------------------------------------------------------------------
\* the latest step resumed a run with a reply to the scenario last.arg
Answered ==
  /\ last.op = "runQueue"
  /\ \E i \in 1..Len(scenarios) : scenarios[i].idx = last.arg

\* the record of that scenario
Target == scenarios[CHOOSE i \in 1..Len(scenarios) : scenarios[i].idx = last.arg]

\* the endpoint answered with a JSON object
ObjectReply == last.reply.net = "reply" /\ last.reply.body.kind = "object"

\* value is what normalizeErrorCode takes for a code: a finite number, or a
\* text that is not blank and that Number() reads as a number; the number
\* Infinity (t = "inf") is none, the text Infinity is one
IsCode(value) ==
  \/ value.t = "num"
  \/ value.t = "str" /\ trim(value.s) # <<>> /\ ~StrToNumber(value.s).nan

\* value is the number code, or a text that Number() reads as code
SameCode(value, code) ==
  /\ code.t \in {"num", "inf"}
  /\ \/ value.t = "num" /\ Canonical(value) = Canonical(code)
     \/ /\ value.t = "str" /\ trim(value.s) # <<>>
        /\ ~StrToNumber(value.s).nan
        /\ NumberValue(StrToNumber(value.s)) = Canonical(code)

\* the reply carries the expected code and no success: false
MatchingReply ==
  /\ Answered /\ ObjectReply
  /\ SameCode(last.reply.body.f["error"], Target.expected_error_code)
  /\ last.reply.body.f["success"] # Bool(FALSE)

\* C1 as stated: whenever the response carries an error equal to the
\* expected code (as a number or as a numeric string) and no success: false,
\* whatever the HTTP status of the reply, the scenario ends in success.
C1_AnyStatus == MatchingReply => Target.status = "success"

\* C1: a reply with a 2xx status whose body is a JSON object with an error
\* equal to the expected code (as a number or as a numeric string) and
\* without success: false leaves the scenario in status success.
C1_MatchingCodeSucceeds ==
  (MatchingReply /\ IsOk(last.reply.status)) => Target.status = "success"

\* a 2xx reply with the expected code as a numeric string ended in success
C1_Witness ==
  /\ MatchingReply /\ IsOk(last.reply.status)
  /\ last.reply.body.f["error"].t = "str"
  /\ Target.status = "success"

\* the reply carries an error field that is not the expected code
DifferingReply ==
  /\ Answered /\ ObjectReply
  /\ last.reply.body.f["error"].t # "undef"
  /\ ~SameCode(last.reply.body.f["error"], Target.expected_error_code)

\* errorMessage quotes the expected code and the error field as received
MentionsBoth ==
  /\ Target.errorMessage.kind = "mismatch"
  /\ Target.errorMessage.expected = Target.expected_error_code
  /\ Target.errorMessage.received = last.reply.body.f["error"]

\* C2 as stated: whenever the error of the response differs from the
\* expected code, the scenario ends in error and errorMessage mentions both
\* the expected and the received code.
C2_AlwaysBoth == DifferingReply => (Target.status = "error" /\ MentionsBoth)

\* C2: a response whose error differs from the expected code leaves the
\* scenario in status error; when the reply has a 2xx status and the error
\* is a finite number, or a text that is not blank and that Number() reads
\* as a number (the text Infinity is one; the number 1e999, which JSON.parse
\* gives as Infinity, is none), errorMessage mentions both the expected and
\* the received code.
C2_MismatchIsError ==
  DifferingReply =>
    /\ Target.status = "error"
    /\ (IsOk(last.reply.status) /\ IsCode(last.reply.body.f["error"]))
         => MentionsBoth

\* a 2xx reply with success: false and another code than expected ended in
\* error with both codes in the message
C2_Witness ==
  /\ DifferingReply /\ IsOk(last.reply.status)
  /\ IsCode(last.reply.body.f["error"])
  /\ last.reply.body.f["success"] = Bool(FALSE)
  /\ Target.status = "error" /\ MentionsBoth

\* C3: a scenario that was answered ends in success or in error; it ends in
\* success only if the body parsed to an object, success is not false and
\* the code of the response is the expected one; a raised request (no
\* reply, or a status outside 2xx) ends in error.
C3_SuccessOnlyIf ==
  Answered =>
    /\ Target.status \in {"success", "error"}
    /\ Target.status = "success" =>
         /\ ObjectReply /\ Target.response.t = "obj"
         /\ last.reply.body.f["success"] # Bool(FALSE)
         /\ SameCode(last.reply.body.f["error"], Target.expected_error_code)
    /\ (last.reply.net = "fail" \/ ~IsOk(last.reply.status))
         => Target.status = "error"

\* a scenario ended in success on a numeric code, the response saying
\* success: true
C3_Witness ==
  /\ Answered /\ Target.status = "success"
  /\ last.reply.body.f["error"].t = "num"
  /\ last.reply.body.f["success"] = Bool(TRUE)

\* the endpoint answered with a status outside 2xx
StatusReply == Answered /\ last.reply.net = "reply" /\ ~IsOk(last.reply.status)

\* C11: when the endpoint answers with a status outside 200..299, whatever
\* the body, sendScenarioRequest raises (no response and no raw text are
\* recorded), the scenario ends in status error and its errorMessage is the
\* HTTP status message carrying the status of the reply.
C11_StatusRaises ==
  StatusReply =>
    /\ Target.status = "error"
    /\ Target.errorMessage.kind = "http"
    /\ Target.errorMessage.status = last.reply.status
    /\ Target.response = RespNull
    /\ Target.rawResponse = <<NoBody>>

\* a reply 500 whose body carries the expected code ended in error with 500
\* in its message
C11_Witness ==
  /\ StatusReply /\ last.reply.status = 500 /\ ObjectReply
  /\ SameCode(last.reply.body.f["error"], Target.expected_error_code)
  /\ Target.status = "error" /\ Target.errorMessage.status = 500

\* the endpoint answered 2xx with a body that JSON.parse rejects or reads as
\* a number, a text, a boolean or null
UnstructuredReply ==
  /\ Answered /\ last.reply.net = "reply" /\ IsOk(last.reply.status)
  /\ last.reply.body.kind \in {"scalar", "text", "empty"}

\* C12: a 2xx reply whose body does not parse to a JSON object or array
\* leaves the scenario in status error with the message that the response
\* is not JSON.
C12_NotJson ==
  UnstructuredReply =>
    /\ Target.status = "error"
    /\ Target.errorMessage.kind = "notJson"
    /\ Target.response = RespNull

\* a 2xx reply with a plain text body ended in error, not JSON
C12_Witness ==
  /\ UnstructuredReply /\ last.reply.body.kind = "text"
  /\ Target.status = "error" /\ Target.errorMessage.kind = "notJson"

\* the endpoint answered 2xx with a body that parsed to an object or array
ParsedReply ==
  /\ Answered /\ last.reply.net = "reply" /\ IsOk(last.reply.status)
  /\ last.reply.body.kind \in {"object", "array"}

\* C13: a parsed response whose error is absent or is neither a finite
\* number nor a non-blank numeric text leaves the scenario in status error,
\* whatever the expected code and the success field are; the text "0" is
\* read as the number 0, recorded as such and compared with the expected
\* code.
C13_CodeCoercion ==
  /\ (ParsedReply /\ ~IsCode(last.reply.body.f["error"]))
       => Target.status = "error"
  /\ (ParsedReply /\ last.reply.body.f["error"] = Str(<<"0">>))
       => /\ Target.actualErrorCode = Num(0)
          /\ (Target.expected_error_code # Num(0)) => Target.status = "error"
          /\ (Target.expected_error_code = Num(0)
               /\ last.reply.body.f["success"] # Bool(FALSE))
                => Target.status = "success"

\* a blank error text ended in error for a scenario that expects 0 and whose
\* response says success: true
C13_Witness ==
  /\ ParsedReply /\ last.reply.body.f["error"] = Str(<<" ">>)
  /\ last.reply.body.f["success"] = Bool(TRUE)
  /\ Target.expected_error_code = Num(0) /\ Target.status = "error"

\* ------------------------------------------------------------------------
\* The run: order, cancellation, isolation, guards
\* ------------------------------------------------------------------------
HasRow(list, idx) == \E i \in 1..Len(list) : list[i].idx = idx

RowOf(list, idx) == list[CHOOSE i \in 1..Len(list) : list[i].idx = idx]

Terminal(status) == status \in {"success", "error"}

\* the scenario whose request the run waits for, and the one after it
InFlight(run) == run.snapshot[run.index + 1]

HasNext(run) == run.index + 1 < Len(run.snapshot)

NextOf(run) == run.snapshot[run.index + 2]

\* the step is the rest of a run after its reply (only that moves the clock)
ResumeStep == clock' # clock

\* the step is a call of handleStart or of handleRunScenario
HandlerStep ==
  events' = events + 1 /\ last'.op \in {"handleStart", "handleRunScenario"}

\* no scenario is newly shown running
NoneStarted ==
  \A i \in 1..Len(scenarios') :
    scenarios'[i].status = "running" =>
      /\ HasRow(scenarios, scenarios'[i].idx)
      /\ RowOf(scenarios, scenarios'[i].idx).status = "running"

\* the step logged the result of the scenario idx
Logged(idx) ==
  \E n \in (Len(logs) + 1)..Len(logs') :
    logs'[n].text = "result" /\ logs'[n].idx = idx

\* the step wrote the result of the scenario idx: it is in the log, and the
\* list has the row of this idx with a final status, the response, the
\* payload and finishedAt
Recorded(idx) ==
  /\ Logged(idx)
  /\ HasRow(scenarios', idx)
  /\ Terminal(RowOf(scenarios', idx).status)
  /\ RowOf(scenarios', idx).response.t # "undef"
  /\ RowOf(scenarios', idx).requestPayload.set
  /\ RowOf(scenarios', idx).finishedAt # <<>>

C4_Step ==
  (cancelRef /\ Len(runs) = 1) =>
    /\ NoneStarted
    /\ runs' # runs => (runs' = <<>> /\ Recorded(InFlight(runs[1]).idx))

\* C4 as stated: once stopQueue has asked a run to stop, the scenario whose
\* request is in flight still finishes and its result (a final status, the
\* response, finishedAt) is recorded in the list, and no scenario is set to
\* running and no request dispatched after it.
C4_StopAfterCurrent == [][C4_Step]_vars

\* the post of B gives no merchant_prepare_id once resolved
ExplicitEmpty(B, references) ==
  \/ B.post["merchant_prepare_id"].t \in {"undef", "null"}
  \/ trim(resolveTemplateValue(ToStr(B.post["merchant_prepare_id"]),
                               references)) = <<>>

\* B is a complete request that takes its prepare id from the chain
Chained(run) ==
  /\ InFlight(run).action = "complete"
  /\ ExplicitEmpty(InFlight(run), run.scenarioReferences)
  /\ run.scenarioClickTransId \notin {id26216, id11994}

\* the latest reply answered a prepare and carried the text P as its
\* merchant_prepare_id, and the next scenario of the run is in flight
PrepareAnswered ==
  /\ Answered /\ ObjectReply /\ Len(runs) = 1
  /\ runs[1].index > 0
  /\ runs[1].snapshot[runs[1].index].idx = last.arg
  /\ runs[1].snapshot[runs[1].index].action = "prepare"
  /\ last.reply.body.f["merchant_prepare_id"].t = "str"

\* C5 as stated: a complete that follows a prepare whose response carried a
\* non-empty text P as merchant_prepare_id is sent with exactly P.
C5_ExactId ==
  (PrepareAnswered /\ last.reply.body.f["merchant_prepare_id"].s # <<>>
   /\ Chained(runs[1]))
    => runs[1].payload["merchant_prepare_id"]
         = last.reply.body.f["merchant_prepare_id"]

\* the j-th scenario of the run was a prepare whose recorded response (the
\* body of a 2xx reply) carries a merchant_prepare_id that is a text and
\* not blank
GaveId(run, j) ==
  /\ run.snapshot[j].action = "prepare"
  /\ RowOf(scenarios, run.snapshot[j].idx).response.t = "obj"
  /\ RowOf(scenarios, run.snapshot[j].idx)
       .response.f["merchant_prepare_id"].t = "str"
  /\ trim(RowOf(scenarios, run.snapshot[j].idx)
            .response.f["merchant_prepare_id"].s) # <<>>

\* C5: when a prepare gets a 2xx response whose merchant_prepare_id is a
\* text that is not blank, a complete dispatched later in the same run,
\* with no explicit merchant_prepare_id and no hardcoded override, and with
\* no prepare in between that got such a response, is sent with that text
\* trimmed; such a complete always carries the latest prepare id of the
\* chain.
C5_TrimmedId ==
  /\ (PrepareAnswered /\ IsOk(last.reply.status)
      /\ trim(last.reply.body.f["merchant_prepare_id"].s) # <<>>
      /\ Chained(runs[1]))
       => runs[1].payload["merchant_prepare_id"]
            = Str(trim(last.reply.body.f["merchant_prepare_id"].s))
  /\ \A i \in 1..Len(runs) : \A j \in 1..runs[i].index :
       (/\ Chained(runs[i]) /\ GaveId(runs[i], j)
        /\ \A k \in (j + 1)..runs[i].index : ~GaveId(runs[i], k))
         => runs[i].payload["merchant_prepare_id"]
              = Str(trim(RowOf(scenarios, runs[i].snapshot[j].idx)
                           .response.f["merchant_prepare_id"].s))
  /\ \A i \in 1..Len(runs) :
       (Chained(runs[i]) /\ runs[i].merchantPrepareIdOld # <<>>)
         => runs[i].payload["merchant_prepare_id"]
              = Str(runs[i].merchantPrepareIdOld)

\* the third scenario, a complete, is in flight with the trimmed id of the
\* first, a prepare; the prepare between them was answered without an id
C5_Witness ==
  /\ Len(runs) = 1 /\ runs[1].index = 2 /\ Chained(runs[1])
  /\ GaveId(runs[1], 1) /\ ~GaveId(runs[1], 2)
  /\ runs[1].snapshot[2].action = "prepare"
  /\ RowOf(scenarios, runs[1].snapshot[2].idx).response.t = "obj"
  /\ runs[1].payload["merchant_prepare_id"] = Str(<<"5", "5">>)


\* a request is dispatched by the step
Dispatched == Len(runs') = 1 /\ runs' # runs

C6_Step ==
  Dispatched =>
    /\ Len(runs) = 1 => runs'[1].index > runs[1].index
    /\ runs'[1].index >= 1 =>
         Recorded(runs'[1].snapshot[runs'[1].index].idx)
    /\ \A j \in 1..Len(runs'[1].snapshot) : \A k \in 1..Len(runs'[1].snapshot) :
         j < k => runs'[1].snapshot[j].idx < runs'[1].snapshot[k].idx

\* C6 as stated: at most one request is in flight; the scenarios of a run
\* are dispatched in ascending idx order, each only after the request of
\* the one before it resolved or failed and its result has been recorded in
\* the list.
C6_Sequential == [](Len(runs) <= 1) /\ [][C6_Step]_vars

C7_Step ==
  (isRunning /\ HandlerStep) => UNCHANGED <<manager, scenarios, runs, isRunning>>

\* C7: while a run is active isRunning is true, handleStart and
\* handleRunScenario change no scenario record and dispatch nothing, and at
\* most one invocation of runQueue is active.
C7_SingleRun ==
  /\ [](Len(runs) <= 1 /\ (runs # <<>> => isRunning))
  /\ [][C7_Step]_vars

\* a single-scenario run was asked for and refused during a run that
\* followed a stopped run
C7_Witness ==
  /\ isRunning /\ Len(runs) = 1 /\ ~cancelRef
  /\ last.op = "handleRunScenario" /\ ~last.acted
  /\ \E n \in 1..Len(logs), m \in 1..Len(logs) :
       /\ n < m
       /\ logs[n].text = "skipped"
       /\ logs[m].text = "started"

\* how the status of a record may change while a run is in progress
Allowed(before, after) ==
  \/ before = after
  \/ before = "queued" /\ after \in {"running", "success", "error"}
  \/ before = "running" /\ after \in {"success", "error"}

C8_Step ==
  isRunning =>
    \A i \in 1..Len(scenarios) :
      /\ HasRow(scenarios', scenarios[i].idx)
      /\ Allowed(scenarios[i].status,
                 RowOf(scenarios', scenarios[i].idx).status)

\* C8 as stated: while a run is in progress the status of a scenario only
\* moves from queued to running and from running to success or error; it is
\* not set to running unless it was queued, and it does not leave success
\* or error.
C8_Lifecycle == [][C8_Step]_vars

\* the step logged the result of the scenario idx as an error
LoggedError(idx) ==
  \E n \in (Len(logs) + 1)..Len(logs') :
    /\ logs'[n].text = "result" /\ logs'[n].idx = idx
    /\ logs'[n].level = "error"

\* the scenario after the one in flight is started by the step: its request
\* is in flight, or it failed at once on an empty URL
StartedNext ==
  \/ /\ Len(runs') = 1 /\ runs'[1].index = runs[1].index + 1
     /\ runs'[1].url # <<>>
     /\ InFlight(runs'[1]) = NextOf(runs[1])
     /\ isRunning'
  \/ LoggedError(NextOf(runs[1]).idx)

C9_Step ==
  /\ (ResumeStep /\ ~cancelRef /\ Len(runs) = 1 /\ HasNext(runs[1])
      /\ LoggedError(InFlight(runs[1]).idx))
       => StartedNext
  /\ (ResumeStep /\ ~cancelRef /\ Len(runs) = 1 /\ runs' = <<>>)
       => \A k \in (runs[1].index + 1)..Len(runs[1].snapshot) :
            Logged(runs[1].snapshot[k].idx)
  /\ (HandlerStep /\ last'.acted /\ last'.op = "handleStart")
       => (isRunning' \/ \A i \in 1..Len(scenarios') :
                           Terminal(scenarios'[i].status))

\* C9: when a scenario ends in error, whatever the reason, and no
\* cancellation was requested, the next scenario of the run is started; a
\* run that was not cancelled ends only when every scenario of it has its
\* result.
C9_ErrorIsolated == [][C9_Step]_vars

\* the request of a scenario failed on the network and the next scenario
\* of the run is in flight
C9_Witness ==
  /\ last.op = "runQueue" /\ last.reply = NetFail /\ ~cancelRef
  /\ Len(runs) = 1 /\ runs[1].index >= 1
  /\ runs[1].snapshot[runs[1].index].idx = last.arg
  /\ RowOf(scenarios, last.arg).status = "error"
  /\ RowOf(scenarios, InFlight(runs[1]).idx).status = "running"

\* the configuration a run needs is missing
ConfigMissing(op) ==
  \/ settings.prepareUrl = <<>> \/ settings.completeUrl = <<>>
  \/ settings.serviceId = <<>> \/ settings.secretKey = <<>>
  \/ (op = "handleStart" /\ Len(scenarios) = 0)

C10_Step ==
  (HandlerStep /\ ConfigMissing(last'.op)
   /\ (~isRunning \/ last'.op = "handleRunScenario")) =>
    /\ UNCHANGED <<manager, scenarios, runs, isRunning>>
    /\ Len(logs') = Len(logs) + 1
    /\ SubSeq(logs', 1, Len(logs)) = logs
    /\ logs'[Len(logs')].level = "error"

\* C10: when prepareUrl or completeUrl is empty, or serviceId or secretKey
\* is empty, or (for handleStart) the list is empty, handleRunScenario, and
\* handleStart called while no run is in progress, start no run, change no
\* scenario record, dispatch no request and append exactly one error entry
\* to the log.
C10_ConfigErrors == [][C10_Step]_vars

\* a start over a loaded list was refused for its credentials
C10_Witness ==
  /\ last.op = "handleStart" /\ ~last.acted /\ ~isRunning
  /\ scenarios # <<>> /\ runs = <<>>
  /\ logs[Len(logs)] = LogEntry("error", "needCredentials", -1)

\* ------------------------------------------------------------------------
\* The reference table and the prepare-id chain
\* ------------------------------------------------------------------------
\* the step answered scenario N of the only run and dispatched scenario N+1
Advanced ==
  /\ ResumeStep /\ Len(runs) = 1 /\ Len(runs') = 1
  /\ runs'[1].index = runs[1].index + 1

\* the response a scenario is left with by this reply to its request: the
\* parsed body of a 2xx reply, null when the request raised
Returned(reply) ==
  IF reply.net = "reply" /\ IsOk(reply.status)
    THEN parseApiResponse(reply.body) ELSE RespNull

\* the entry of the scenario N that the step answered holds its post, the
\* payload it was sent with and the response it was left with
HoldsAnswered(table, N, id) ==
  /\ id \in DOMAIN table
  /\ table[id].post = N.post
  /\ table[id].request = PayloadOf(runs[1].payload)
  /\ table[id].response = Returned(last'.reply)
  /\ (last'.reply.net = "reply" /\ IsOk(last'.reply.status)
      /\ last'.reply.body.kind = "object")
       => table[id].response = RespObj(last'.reply.body.f)

\* the table once the scenario in flight has been answered by reply
AfterAnswer(run, reply) ==
  IF run.scenarioClickTransId = <<>> THEN run.scenarioReferences
  ELSE Put(run.scenarioReferences, run.scenarioClickTransId,
           [post |-> InFlight(run).post, request |-> PayloadOf(run.payload),
            response |-> Returned(reply)])

C14_Step ==
  Advanced =>
    /\ (runs[1].scenarioClickTransId # <<>>
        /\ runs[1].scenarioClickTransId # runs'[1].scenarioClickTransId)
         => HoldsAnswered(runs'[1].scenarioReferences, InFlight(runs[1]),
                          runs[1].scenarioClickTransId)
    \* the table the context of N+1 is built from is the table before the
    \* step with the entry of N: every entry but the one of N+1 is as in
    \* it, and so is the response of the entry of N+1
    /\ DOMAIN runs'[1].scenarioReferences
         = DOMAIN AfterAnswer(runs[1], last'.reply)
             \cup ({runs'[1].scenarioClickTransId} \ {<<>>})
    /\ \A id \in DOMAIN AfterAnswer(runs[1], last'.reply) :
         /\ id # runs'[1].scenarioClickTransId =>
              runs'[1].scenarioReferences[id]
                = AfterAnswer(runs[1], last'.reply)[id]
         /\ runs'[1].scenarioReferences[id].response
              = AfterAnswer(runs[1], last'.reply)[id].response
    /\ (runs[1].scenarioClickTransId = id18409
        /\ InFlight(runs'[1]).post["error_note"] = Str(PrepareIdOf18409)
        /\ last'.reply.net = "reply" /\ IsOk(last'.reply.status)
        /\ last'.reply.body.kind = "object")
         => runs'[1].payload["error_note"]
              = Str(OrStr(NodeText(ValNode(
                            last'.reply.body.f["merchant_prepare_id"])),
                          <<"O", "k">>))

\* the correlation id the j-th scenario of the run was sent with
SentWith(run, j) ==
  trim(FieldStr(RowOf(scenarios, run.snapshot[j].idx)
                  .requestPayload.f["click_trans_id"]))

\* the entry of the table under the correlation id of the j-th scenario of
\* the run holds the payload and the response recorded for that scenario
HoldsFinished(run, j) ==
  /\ SentWith(run, j) \in DOMAIN run.scenarioReferences
  /\ run.scenarioReferences[SentWith(run, j)].request
       = RowOf(scenarios, run.snapshot[j].idx).requestPayload
  /\ run.scenarioReferences[SentWith(run, j)].response
       = RowOf(scenarios, run.snapshot[j].idx).response

\* every scenario of a run that finished before the one in flight, and was
\* sent with another correlation id than the one in flight, has its request
\* and its final response in the reference table
TableHoldsEarlier ==
  \A i \in 1..Len(runs) : \A j \in 1..runs[i].index :
    (SentWith(runs[i], j) # <<>>
     /\ SentWith(runs[i], j) # runs[i].scenarioClickTransId)
      => HoldsFinished(runs[i], j)

\* the same of the scenarios after which the run has sent no scenario with
\* the same correlation id
TableHoldsLatest ==
  \A i \in 1..Len(runs) : \A j \in 1..runs[i].index :
    (/\ SentWith(runs[i], j) # <<>>
     /\ SentWith(runs[i], j) # runs[i].scenarioClickTransId
     /\ \A k \in (j + 1)..runs[i].index :
          SentWith(runs[i], k) # SentWith(runs[i], j))
      => /\ HoldsFinished(runs[i], j)
         /\ runs[i].scenarioReferences[SentWith(runs[i], j)].post
              = runs[i].snapshot[j].post

\* C14 as stated: when the context of scenario N+1 is built the reference
\* table holds the request payload and the final response of every scenario
\* that finished earlier in the run.
C14_EveryEarlier == TableHoldsEarlier

\* C14: when the context of scenario N+1 is built the reference table holds,
\* under each correlation id, the post, the request payload and the final
\* response of the latest scenario with that id that finished earlier in
\* the run (a later scenario replaces the entry of an earlier one with the
\* same click_trans_id), so that a placeholder
\* {{response.<id of N>.<field>}} in the post of N+1 is replaced by the text
\* of that field of the response N received in this run.
C14_ReferencesUpdated == []TableHoldsLatest /\ [][C14_Step]_vars

\* the third scenario of a run is in flight with the merchant_prepare_id
\* that the second, the complete of 18409, was answered with as its
\* error_note: the entry of 18409 holds the complete, not the prepare
\* before it
C14_Witness ==
  /\ Answered /\ ObjectReply /\ IsOk(last.reply.status)
  /\ last.reply.body.f["merchant_prepare_id"] = Str(<<"\t", "5", "5", "\n">>)
  /\ Len(runs) = 1 /\ runs[1].index = 2
  /\ SentWith(runs[1], 1) = id18409 /\ SentWith(runs[1], 2) = id18409
  /\ runs[1].scenarioReferences[id18409].post = runs[1].snapshot[2].post
  /\ InFlight(runs[1]).post["error_note"] = Str(PrepareIdOf18409)
  /\ runs[1].payload["error_note"] = Str(<<"\t", "5", "5", "\n">>)

\* the chain state of a run: the last-known prepare id and the map of
\* prepare ids by correlation id
ChainOf(run) ==
  <<run.merchantPrepareIdOld, run.merchantPrepareIdByClickTransId>>

\* the reply of the step gave a prepare id: a 2xx object whose
\* merchant_prepare_id is a text with something in it besides white space
GavePrepareId ==
  /\ last'.reply.net = "reply" /\ IsOk(last'.reply.status)
  /\ last'.reply.body.kind = "object"
  /\ last'.reply.body.f["merchant_prepare_id"].t = "str"
  /\ trim(last'.reply.body.f["merchant_prepare_id"].s) # <<>>

C15_Step ==
  /\ (Len(runs) = 1 /\ Len(runs') = 1 /\ ChainOf(runs'[1]) # ChainOf(runs[1]))
       => /\ ResumeStep /\ GavePrepareId
          /\ InFlight(runs[1]).action = "prepare"
          /\ runs'[1].merchantPrepareIdOld
               = trim(last'.reply.body.f["merchant_prepare_id"].s)
          /\ runs'[1].merchantPrepareIdByClickTransId =
               IF runs[1].scenarioClickTransId = <<>>
                 THEN runs[1].merchantPrepareIdByClickTransId
                 ELSE Put(runs[1].merchantPrepareIdByClickTransId,
                          runs[1].scenarioClickTransId,
                          runs'[1].merchantPrepareIdOld)
  /\ (Len(runs) = 0 /\ Len(runs') = 1)
       => ChainOf(runs'[1]) = <<settings.presetMerchantPrepareId, EmptyMap>>

\* C15: within a run the last-known prepare id and the map of prepare ids by
\* correlation id change only in the step that answers a prepare scenario
\* with a response whose merchant_prepare_id is a text that is not blank,
\* and then to that text trimmed; a complete scenario, a prepare without
\* such an id and a raised request leave them as they were, and a run
\* starts with the preset id and an empty map.
C15_ChainWrites == [][C15_Step]_vars

\* a prepare was answered with a blank merchant_prepare_id, the complete
\* after it with one that is not blank, and the chain of the run still
\* holds the preset id and no id by correlation id
C15_Witness ==
  /\ Answered /\ ObjectReply /\ IsOk(last.reply.status)
  /\ Target.action = "complete"
  /\ last.reply.body.f["merchant_prepare_id"] = Str(<<"\t", "5", "5", "\n">>)
  /\ Len(runs) = 1 /\ runs[1].index = 2
  /\ runs[1].snapshot[1].action = "prepare"
  /\ RowOf(scenarios, runs[1].snapshot[1].idx)
       .response.f["merchant_prepare_id"] = Str(<<" ">>)
  /\ ChainOf(runs[1]) = <<settings.presetMerchantPrepareId, EmptyMap>>
  /\ settings.presetMerchantPrepareId = <<"9">>

\* ------------------------------------------------------------------------
\* The prepare id of a request
\* ------------------------------------------------------------------------
\* buildRequestContext was called for a scenario with this action
Built(action) ==
  last.op = "buildRequestContext" /\ scenarios[1].action = action

\* the merchant_prepare_id of the resolved post: the text, with '' when the
\* post has none
ResolvedPrepareId ==
  IF scenarios[1].post["merchant_prepare_id"].t \in {"undef", "null"}
    THEN <<>>
    ELSE resolveTemplateValue(ToStr(scenarios[1].post["merchant_prepare_id"]),
                              last.arg.scenarioReferences)

\* the correlation id of the call
BuiltId == trim(FieldStr(scenarios[1].post["click_trans_id"]))

\* the prepare id captured for 18409, '' when there is none
CapturedFor18409 ==
  IF id18409 \in DOMAIN last.arg.merchantPrepareIdByClickTransId
    THEN last.arg.merchantPrepareIdByClickTransId[id18409] ELSE <<>>

\* the id chosen in the order (a) to (d)
ChosenPrepareId ==
  IF BuiltId = id26216 THEN last.arg.random
  ELSE IF trim(ResolvedPrepareId) # <<>> THEN trim(ResolvedPrepareId)
  ELSE IF BuiltId = id11994 /\ CapturedFor18409 # <<>> THEN CapturedFor18409
  ELSE last.arg.previousMerchantPrepareId

\* C16: for a complete scenario merchantPrepareIdUsed is (a) the random id
\* when the correlation id is 26216, else (b) the trimmed merchant_prepare_id
\* of the resolved post when that is not empty, else (c) for 11994 the id
\* captured for 18409 if there is one, else (d) the last-known prepare id;
\* the payload carries the chosen id whenever it is not empty.
C16_PrepareIdOrder ==
  Built("complete") =>
    /\ last.result.merchantPrepareIdUsed = ChosenPrepareId
    /\ ChosenPrepareId # <<>> =>
         last.result.payload["merchant_prepare_id"] = Str(ChosenPrepareId)

\* a complete for 26216 whose post names an id of its own was built with
\* the random id
C16_Witness ==
  /\ Built("complete") /\ BuiltId = id26216
  /\ trim(ResolvedPrepareId) = <<"7">>
  /\ last.result.payload["merchant_prepare_id"] = Str(last.arg.random)

\* C17 as stated: the payload built for a prepare scenario carries no
\* merchant_prepare_id, whatever the post, the settings and the chain state
\* are.
C17_NoPrepareId ==
  Built("prepare") => last.result.payload["merchant_prepare_id"] = Undef

\* ------------------------------------------------------------------------
\* Settings and state across runs
\* ------------------------------------------------------------------------
\* the endpoint the settings s give for an action
EndpointOf(s, action) ==
  normalizeEndpointUrl(IF action = "complete" THEN s.completeUrl
                       ELSE s.prepareUrl)

C18_Step ==
  (ResumeStep /\ Dispatched) =>
    runs'[1].url = EndpointOf(settings', InFlight(runs'[1]).action)

\* C18 as stated: a scenario dispatched after a setting was changed during
\* the run is built with the new value: every request a run sends after its
\* first goes to the endpoint the settings name at that moment.
C18_LiveSettings == [][C18_Step]_vars

\* the row of the list that is a prepare whose recorded response gave a
\* prepare id
CapturedRows ==
  {i \in 1..Len(scenarios) :
     /\ scenarios[i].action = "prepare"
     /\ scenarios[i].response.t = "obj"
     /\ scenarios[i].response.f["merchant_prepare_id"].t = "str"
     /\ trim(scenarios[i].response.f["merchant_prepare_id"].s) # <<>>}

\* a complete with no id of its own was started alone after a run in which
\* a prepare was given an id
ReplayedAlone ==
  /\ last.op = "handleRunScenario" /\ last.acted
  /\ Len(runs) = 1 /\ Len(runs[1].snapshot) = 1 /\ Chained(runs[1])
  /\ CapturedRows # {}

\* C19 as stated: a complete scenario replayed alone, with no explicit id,
\* carries the merchant_prepare_id that a prepare scenario captured in an
\* earlier run.
C19_SharedChain ==
  ReplayedAlone =>
    \E i \in CapturedRows :
      runs[1].payload["merchant_prepare_id"]
        = Str(trim(scenarios[i].response.f["merchant_prepare_id"].s))

\* the entry the table is seeded with for a row of the list
SeedOf(row) ==
  [post |-> row.post, request |-> row.requestPayload,
   response |-> row.response]

C20_Step ==
  /\ (HandlerStep /\ Len(runs) = 0 /\ Len(runs') = 1 /\ runs'[1].index = 0)
       => \A i \in 1..Len(scenarios) :
            LET id == PostClickTransId(scenarios[i].post)
            IN  (id # <<>> /\ id # runs'[1].scenarioClickTransId) =>
                  /\ id \in DOMAIN runs'[1].scenarioReferences
                  /\ runs'[1].scenarioReferences[id] = SeedOf(scenarios[i])
  /\ (Advanced /\ runs[1].scenarioClickTransId # <<>>
      /\ runs[1].scenarioClickTransId # runs'[1].scenarioClickTransId
      /\ runs[1].scenarioReferences[runs[1].scenarioClickTransId].response.t
           # "undef")
       => HoldsAnswered(runs'[1].scenarioReferences, InFlight(runs[1]),
                        runs[1].scenarioClickTransId)

\* a complete started alone whose error_note names the response to 18409
\* and whose list holds an object response to 18409 from an earlier run
SeededReplay ==
  /\ last.op = "handleRunScenario" /\ last.acted
  /\ Len(runs) = 1 /\ Len(runs[1].snapshot) = 1
  /\ InFlight(runs[1]).post["error_note"] = Str(PrepareIdOf18409)
  /\ \E i \in 1..Len(scenarios) :
       /\ PostClickTransId(scenarios[i].post) = id18409
       /\ scenarios[i].response.t = "obj"

\* the text a row of the list gives for {{response.18409.merchant_prepare_id}}
StoredPrepareIdText ==
  LET i == CHOOSE i \in 1..Len(scenarios) :
             PostClickTransId(scenarios[i].post) = id18409
  IN  NodeText(ValNode(scenarios[i].response.f["merchant_prepare_id"]))

Unstarted(run) ==
  {run.snapshot[k].idx : k \in (run.index + 2)..Len(run.snapshot)}

\* the row idx is as it was before the step, waits, and holds no result
KeptUnstarted(idx) ==
  /\ HasRow(scenarios', idx)
  /\ RowOf(scenarios', idx) = RowOf(scenarios, idx)
  /\ RowOf(scenarios', idx).status \in {"queued", "idle"}
  /\ RowOf(scenarios', idx).response.t \in {"null", "undef"}
  /\ ~RowOf(scenarios', idx).requestPayload.set
  /\ RowOf(scenarios', idx).rawResponse = <<>>
  /\ RowOf(scenarios', idx).errorMessage = NoMsg
  /\ RowOf(scenarios', idx).actualErrorCode = Undef
  /\ RowOf(scenarios', idx).startedAt = <<>>
  /\ RowOf(scenarios', idx).finishedAt = <<>>
  /\ RowOf(scenarios', idx).durationMs = <<>>

C21_Step ==
  (ResumeStep /\ cancelRef /\ Len(runs) = 1) =>
    \A idx \in Unstarted(runs[1]) :
      HasRow(scenarios, idx) => KeptUnstarted(idx)

\* C21: when a run sees the cancellation flag, every scenario of the run
\* that it has not started is left as it was when the run was armed: it is
\* not set to running, success or error and no result field of it is
\* written.
C21_UnstartedKept == [][C21_Step]_vars

\* a stopped full run: its first scenario has a result, the second one still
\* waits with no result field set
C21_Witness ==
  /\ last.op = "runQueue" /\ ~isRunning /\ runs = <<>>
  /\ logs # <<>> /\ logs[Len(logs)].text = "skipped"
  /\ Len(scenarios) = 2
  /\ Terminal(scenarios[1].status)
  /\ scenarios[2].status = "queued" /\ scenarios[2].response = RespNull
  /\ scenarios[2].startedAt = <<>> /\ scenarios[2].finishedAt = <<>>
  /\ ~scenarios[2].requestPayload.set

C22_Step == (isRunning /\ ~ResumeStep) => scenarios' = scenarios

\* C22: while a run is in progress only the engine writes the scenario
\* list: no step other than the run's own changes the list between the
\* start and the end of the run, neither a template load that completes
\* during the run nor a save of the scenario manager.
C22_SoleWriter == [][C22_Step]_vars

\* ------------------------------------------------------------------------
\* Placeholders
\* ------------------------------------------------------------------------
\* the latest step is a call of resolveTemplateValue
Resolved == last.op = "resolveTemplateValue"

\* the text holds {{, then one or more characters other than }, then }}
HasPlaceholder(text) ==
  \E i \in 1..Len(text), j \in 1..Len(text) :
    /\ i + 3 <= j /\ j + 1 <= Len(text)
    /\ text[i] = "{" /\ text[i + 1] = "{"
    /\ text[j] = "}" /\ text[j + 1] = "}"
    /\ \A k \in (i + 2)..(j - 1) : text[k] # "}"

\* C24: resolveTemplateValue returns a text that holds no {{...}}
\* placeholder unchanged, whatever the reference table, so that resolving
\* the result again changes nothing.
C24_PlainUnchanged ==
  (Resolved /\ ~HasPlaceholder(last.arg.rawValue)) =>
    /\ last.result = last.arg.rawValue
    /\ resolveTemplateValue(last.result, last.references) = last.result

\* a text of braces that is no placeholder came back as it was
C24_Witness ==
  /\ Resolved /\ last.arg.rawValue = <<"{", "{", "}", "}">>
  /\ last.result = <<"{", "{", "}", "}">>

\* the scenario form of the placeholder the call was given
ScenarioForm ==
  last.arg.prefix
  \o PlaceholderText("scenario", last.arg.source, last.arg.id,
                     last.arg.path, <<>>)

\* C25: whatever the reference table, the correlation id and the path, the
\* short placeholder {{<source>.<id>.<path>}} with source response, request
\* or post resolves to the same text as {{scenario.<id>.<source>.<path>}}.
C25_ShortEqualsScenarioForm ==
  (Resolved /\ last.arg.form = "short"
     /\ last.arg.source \in {tResponse, tRequest, tPost}) =>
    last.result = resolveTemplateValue(ScenarioForm, last.references)

\* the short form gave the merchant_prepare_id of the response to 18409
C25_Witness ==
  /\ Resolved /\ last.arg.form = "short" /\ last.arg.source = tResponse
  /\ last.arg.id = id18409
  /\ last.arg.path = <<KeyText["merchant_prepare_id"]>>
  /\ last.result = last.arg.prefix \o <<"4">>

\* the segments of the path that are not empty
Segments == SelectSeq(last.arg.path, LAMBDA segment : segment # <<>>)

\* the mapping f has a field of its own with this name
OwnField(f, name) ==
  \E k \in DOMAIN f : KeyText[k] = name /\ f[k].t # "undef"

\* the path names nothing in the mapping f, whose values are all plain: its
\* first segment is no field of f, or it goes on through a plain value
NothingAt(f) ==
  /\ Segments # <<>>
  /\ (~OwnField(f, Segments[1]) \/ Len(Segments) >= 2)

\* the placeholder names an id the table lacks, a source the entry lacks,
\* or a path that leads to no field
NamesNothing ==
  \/ last.arg.id \notin DOMAIN last.references
  \/ last.arg.source \notin {tResponse, tRequest, tPost}
  \/ LET entry == last.references[last.arg.id]
     IN  CASE last.arg.source = tResponse ->
                IF entry.response.t # "obj" THEN TRUE
                ELSE ~entry.response.arr /\ NothingAt(entry.response.f)
           [] last.arg.source = tRequest ->
                IF ~entry.request.set THEN TRUE
                ELSE NothingAt(entry.request.f)
           [] OTHER -> NothingAt(entry.post)

\* C23: resolveTemplateValue replaces a placeholder by the empty text
\* whenever its correlation id is not in the reference table, its source is
\* missing, a value on its path is not a mapping or its last field is
\* absent, for every table and every path, empty segments included.
C23_MissingIsEmpty ==
  (Resolved /\ last.arg.form \in {"short", "scenario"} /\ NamesNothing) =>
    last.result = last.arg.prefix

\* ------------------------------------------------------------------------
\* Results and arming
\* ------------------------------------------------------------------------
\* the scenarios a run that ends with this step has set to running: all of
\* its snapshot, or those up to the one in flight when it was stopped
StartedBy(run) ==
  {run.snapshot[k].idx :
     k \in 1..(IF cancelRef THEN run.index + 1 ELSE Len(run.snapshot))}

\* the row idx holds the times and the payload of a finished scenario
Timed(idx) ==
  /\ HasRow(scenarios', idx)
  /\ RowOf(scenarios', idx).finishedAt # <<>>
  /\ RowOf(scenarios', idx).durationMs # <<>>
  /\ RowOf(scenarios', idx).requestPayload.set
  /\ Terminal(RowOf(scenarios', idx).status)

C26_Step ==
  /\ (ResumeStep /\ Len(runs) = 1 /\ runs' = <<>>) =>
       \A idx \in StartedBy(runs[1]) : Timed(idx)
  /\ (HandlerStep /\ last'.acted /\ runs' = <<>>) =>
       \A i \in 1..Len(scenarios) :
         (last'.op = "handleStart" \/ last'.arg = i) =>
           Timed(scenarios[i].idx)

\* C26: every scenario that a run set to running shows, when that run ends,
\* finishedAt, durationMs and requestPayload, with status success or error,
\* whatever its outcome was.
C26_AlwaysTimed == [][C26_Step]_vars

\* the record holds no result of an earlier run
NoResult(row) ==
  /\ row.response = RespNull /\ row.rawResponse = <<>>
  /\ row.errorMessage = NoMsg /\ ~row.requestPayload.set
  /\ row.actualErrorCode = Undef
  /\ row.finishedAt = <<>> /\ row.durationMs = <<>>

\* the record is armed: queued, with no result and no start time
Queued(row) == row.status = "queued" /\ NoResult(row) /\ row.startedAt = <<>>

\* the record after the step is the armed one, or the armed one that the
\* run has since set to running, or one the run has already finished
ArmedThenRun(row) ==
  \/ Queued(row)
  \/ row.status = "running" /\ NoResult(row) /\ row.startedAt = <<clock>>
  \/ Terminal(row.status) /\ row.startedAt = <<clock>>
       /\ row.finishedAt = <<clock>>

\* the record keeps what defines the scenario
SameScenario(row, old) ==
  /\ row.idx = old.idx /\ row.action = old.action /\ row.post = old.post
  /\ row.sending_error_code = old.sending_error_code
  /\ row.expected_error_code = old.expected_error_code

C27_Step ==
  (HandlerStep /\ last'.acted) =>
    /\ Len(scenarios') = Len(scenarios)
    /\ \A i \in 1..Len(scenarios) :
         IF last'.op = "handleStart" \/ last'.arg = i
           THEN ArmedThenRun(scenarios'[i])
                /\ SameScenario(scenarios'[i], scenarios[i])
           ELSE scenarios'[i] = scenarios[i]
    /\ runs' # <<>> =>
         /\ \A k \in 1..Len(runs'[1].snapshot) :
              Queued(runs'[1].snapshot[k])
         /\ Len(runs'[1].snapshot) =
              (IF last'.op = "handleStart" THEN Len(scenarios) ELSE 1)

\* C27: arming a full run leaves every scenario of the list queued with
\* response null and rawResponse, errorMessage, requestPayload,
\* actualErrorCode, startedAt, finishedAt and durationMs unset before the
\* first scenario is dispatched (the run works on these records and has by
\* the end of the step set only the first one to running); arming a
\* single-scenario run does this to that scenario and leaves the others as
\* they were.
C27_ArmingClears == [][C27_Step]_vars

\* a second full run has been armed: the second scenario, which has a result
\* in the log, is queued again with no result
C27_Witness ==
  /\ last.op = "handleStart" /\ last.acted /\ Len(scenarios) = 2
  /\ Queued(scenarios[2]) /\ scenarios[1].status = "running"
  /\ \E n \in 1..Len(logs) :
       logs[n].text = "result" /\ logs[n].idx = scenarios[2].idx

\* C28: in every reachable state each scenario of the list has its 0-based
\* position as idx, so the idx values are unique, after any sequence of
\* template loads, scenario manager saves with adds and deletes, and runs;
\* the snapshot of a run holds the same numbering, and a run never changes
\* an idx.
C28_IdxIsPosition ==
  /\ \A i \in 1..Len(scenarios) : scenarios[i].idx = i - 1
  /\ \A i, j \in 1..Len(scenarios) :
       scenarios[i].idx = scenarios[j].idx => i = j
  /\ \A r \in 1..Len(runs) :
       \A k \in 1..Len(runs[r].snapshot) :
         /\ runs[r].snapshot[k].idx \in 0..(MaxScenarios - 1)
         /\ \A n \in 1..Len(runs[r].snapshot) :
              runs[r].snapshot[k].idx = runs[r].snapshot[n].idx => k = n

\* the manager deleted the first scenario and saved: the complete 11994,
\* second in every template that has it, is now number 0
C28_Witness ==
  /\ last.op = "handleSave" /\ last.acted /\ Len(scenarios) = 1
  /\ scenarios[1].post["click_trans_id"] = Str(id11994)
  /\ scenarios[1].idx = 0

\* ------------------------------------------------------------------------
\* Signature
\* ------------------------------------------------------------------------
\* the text of a field of the payload that was built, '' when it has none
Sent(k) == FieldStr(last.result.payload[k])

\* the digest of the fields of the payload as they are sent
SentDigest ==
  md5(Sent("click_trans_id") \o Sent("service_id") \o settings.secretKey
      \o Sent("merchant_trans_id")
      \o (IF scenarios[1].action = "complete"
            THEN Sent("merchant_prepare_id") ELSE <<>>)
      \o Sent("amount") \o Sent("action") \o Sent("sign_time"))

\* C29 as stated: the sign_string of a payload is the digest of its final
\* click_trans_id, service_id, the secret key, merchant_trans_id, its
\* merchant_prepare_id when the action is complete, amount, action and
\* sign_time, in this order; for the correlation ids 27147 and 26021 it is
\* the fixed digest.
C29_SignsFinalValues ==
  last.op = "buildRequestContext" =>
    Sent("sign_string") =
      (IF trim(Sent("click_trans_id")) \in {id27147, id26021}
         THEN FixedSignString ELSE SentDigest)

\* ------------------------------------------------------------------------
\* Registration of a request
\* ------------------------------------------------------------------------
\* the entry of the table for the scenario whose request run waits for
OwnEntry(run) == run.scenarioReferences[run.scenarioClickTransId]

\* the entry holds the post of the scenario in flight and the payload that
\* was sent, in which no placeholder is left
Registered(run) ==
  run.scenarioClickTransId # <<>> =>
    /\ run.scenarioClickTransId \in DOMAIN run.scenarioReferences
    /\ OwnEntry(run).post = InFlight(run).post
    /\ OwnEntry(run).request = PayloadOf(run.payload)
    /\ \A k \in Keys : ~HasPlaceholder(FieldStr(run.payload[k]))

\* the response the list holds for the correlation id, undefined if none
StoredResponse(id) ==
  IF \E i \in 1..Len(scenarios) : PostClickTransId(scenarios[i].post) = id
    THEN scenarios[CHOOSE i \in 1..Len(scenarios) :
                     /\ PostClickTransId(scenarios[i].post) = id
                     /\ \A j \in (i + 1)..Len(scenarios) :
                          PostClickTransId(scenarios[j].post) # id].response
    ELSE RespUndef

\* the response the table of the run held for the correlation id
TableResponse(run, id) ==
  IF id \in DOMAIN run.scenarioReferences
    THEN run.scenarioReferences[id].response ELSE RespUndef

C30_Step ==
  /\ (runs # <<>> /\ ~ResumeStep) => runs' = runs
  /\ (HandlerStep /\ Len(runs) = 0 /\ Len(runs') = 1 /\ runs'[1].index = 0
      /\ runs'[1].scenarioClickTransId # <<>>)
       => OwnEntry(runs'[1]).response
            = StoredResponse(runs'[1].scenarioClickTransId)
  /\ (Advanced /\ runs'[1].scenarioClickTransId # <<>>)
       => OwnEntry(runs'[1]).response
            = IF runs'[1].scenarioClickTransId = runs[1].scenarioClickTransId
                THEN Returned(last'.reply)
                ELSE TableResponse(runs[1], runs'[1].scenarioClickTransId)

\* C30: while the request of a scenario is in flight the reference table of
\* the run holds, under the scenario's correlation id, the scenario's post
\* and as request the payload that was built, with its placeholders
\* resolved; the response of that entry is the one the table held before
\* (from the list, or from earlier in the run) and stays so until the
\* scenario is answered.
C30_RegisteredBeforeDispatch ==
  /\ [](\A r \in 1..Len(runs) : Registered(runs[r]))
  /\ [][C30_Step]_vars

\* the complete of 18409 is in flight after the prepare of 18409: the
\* entry holds the post and the payload of the complete, and still the
\* response the prepare was answered with
C30_Witness ==
  /\ Len(runs) = 1 /\ runs[1].index = 1
  /\ runs[1].scenarioClickTransId = id18409
  /\ InFlight(runs[1]).action = "complete"
  /\ runs[1].snapshot[1].action = "prepare"
  /\ Answered /\ ObjectReply /\ IsOk(last.reply.status)
  /\ OwnEntry(runs[1]).post = InFlight(runs[1]).post
  /\ OwnEntry(runs[1]).request = PayloadOf(runs[1].payload)
  /\ OwnEntry(runs[1]).response = RespObj(last.reply.body.f)

\* ------------------------------------------------------------------------
\* Several placeholders
\* ------------------------------------------------------------------------
\* the texts between the placeholders, each followed by what the inner text
\* of its placeholder resolves to on its own
RECURSIVE Spliced(_, _, _)
Spliced(between, inner, references) ==
  IF inner = <<>> THEN <<>>
  ELSE Head(between) \o resolveExpression(Head(inner), references)
       \o Spliced(Tail(between), Tail(inner), references)

\* C31: resolveTemplateValue replaces each placeholder of a text by what
\* that placeholder resolves to on its own, whatever the other placeholders
\* of the text are, and copies the resolved value as it is: a value that
\* holds {{...}} text is not resolved again.
C31_EachOnceVerbatim ==
  (Resolved /\ last.arg.form # "none") =>
    last.result = Spliced(last.arg.between, last.arg.inner, last.references)

\* two placeholders were resolved: the first to the error_note of the post
\* of 5, which is the text of a placeholder and stays so, the second to the
\* merchant_prepare_id of the response to 18409
C31_Witness ==
  /\ Resolved /\ last.arg.form = "pair"
  /\ last.arg.between = <<<<>>, <<"a">>>>
  /\ last.result =
       PlaceholderText("short", tResponse, id18409,
                       <<KeyText["merchant_prepare_id"]>>, <<>>)
       \o <<"a", "4">>

\* ------------------------------------------------------------------------
\* Audit trail
\* ------------------------------------------------------------------------
\* the trail after the step is the trail before it with one more entry of
\* one of these directions for the request of the call, older entries
\* dropped from the front at most
GainedEntry(directions) ==
  LET before == last.audit
      after == last'.audit
      n == Len(after)
      kept == n - 1
  IN  /\ n >= 1
      /\ after[n].requestId = last.arg.requestId
      /\ after[n].direction \in directions
      /\ kept <= Len(before)
      /\ SubSeq(after, 1, kept)
           = SubSeq(before, Len(before) - kept + 1, Len(before))
      /\ (kept < Len(before) => n = maxHttpAuditEntries)

C32_Step ==
  /\ (last.op = "mount" /\ last'.op # "mount") =>
       IF last.arg.url = <<>>
         THEN /\ last'.result.threw /\ last'.audit = last.audit
              /\ last'.fetches = 0
         ELSE /\ last'.op = "fetch" /\ last'.fetches = 1
              /\ GainedEntry({"request"})
  /\ (last.op = "fetch" /\ last'.op = "sendScenarioRequest") =>
       /\ GainedEntry({"response", "error"})
       /\ last'.fetches = 1

\* C32: a call of sendScenarioRequest with a URL appends one request entry
\* before its network call and one response or error entry with the same
\* requestId before it returns or raises; a call without a URL raises with
\* no entry and no network call.
C32_Audited == [][C32_Step]_vars

\* ------------------------------------------------------------------------
\* Termination of a run
\* ------------------------------------------------------------------------
\* C33: whenever a run is shown in progress, isRunning is false again
\* later, provided every request in flight is answered or fails: no content
\* of the scenario list leaves isRunning true for ever.
C33_RunEnds == isRunning ~> ~isRunning

\* ------------------------------------------------------------------------
\* The list at the end of a run
\* ------------------------------------------------------------------------
\* every row of the list shows a result and no run is shown in progress
AllTerminal ==
  /\ ~isRunning'
  /\ \A i \in 1..Len(scenarios') : Terminal(scenarios'[i].status)

\* the run is one over the whole list: its snapshot holds a scenario for
\* every idx of the list, and no other
Whole(run) ==
  {run.snapshot[k].idx : k \in 1..Len(run.snapshot)}
    = {scenarios[i].idx : i \in 1..Len(scenarios)}

\* a run over the whole list ends with this step, nobody having asked it to
\* stop
C34_Step ==
  /\ (ResumeStep /\ Len(runs) = 1 /\ runs' = <<>> /\ ~cancelRef
        /\ Whole(runs[1])) => AllTerminal
  /\ (HandlerStep /\ last'.op = "handleStart" /\ last'.acted
        /\ runs' = <<>>) => AllTerminal

\* C34: when a run started by handleStart ends and stopQueue was not called
\* during it, every scenario of the list has status success or error and
\* isRunning is false.
C34_AllTerminal == [][C34_Step]_vars

\* ------------------------------------------------------------------------
\* Runs of one scenario
\* ------------------------------------------------------------------------
\* the step leaves every row whose idx is not target as it was
OthersKept(target) ==
  /\ Len(scenarios') = Len(scenarios)
  /\ \A i \in 1..Len(scenarios) :
       scenarios[i].idx # target => scenarios'[i] = scenarios[i]

\* the steps of a run of one scenario: the call of handleRunScenario that
\* arms and dispatches it, and the step that takes its answer
C35_Step ==
  /\ (HandlerStep /\ last'.op = "handleRunScenario" /\ last'.acted) =>
       OthersKept(scenarios[last'.arg].idx)
  /\ (ResumeStep /\ Len(runs) = 1 /\ Len(runs[1].snapshot) = 1) =>
       /\ OthersKept(runs[1].snapshot[1].idx)
       /\ runs' = <<>>

\* C35: a run of one scenario started by handleRunScenario changes no row
\* of the list but the one with the idx of that scenario: every other row
\* has the same status and the same result fields after each step of the
\* run as before it.
C35_OnlyTarget == [][C35_Step]_vars

\* the second scenario of a list of two was run alone and has its result,
\* the first one is as it was loaded
C35_Witness ==
  /\ last.op = "runQueue" /\ last.arg = 1 /\ ~isRunning
  /\ Len(scenarios) = 2
  /\ Terminal(scenarios[2].status)
  /\ scenarios[1].status = "idle" /\ scenarios[1].response = RespUndef
  /\ scenarios[1].finishedAt = <<>>

\* ------------------------------------------------------------------------
\* Stop requests and later runs
\* ------------------------------------------------------------------------
\* the step is a call of stopQueue
StopStep == last'.op = "stopQueue" /\ last' # last

\* the log holds a request to stop
StopLogged(log) == \E n \in 1..Len(log) : log[n].text = "stopRequested"

\* the step shows the scenario idx running and logs its start
FirstStarted(idx) ==
  /\ \E n \in (Len(logs) + 1)..Len(logs') :
       logs'[n].text = "scenario" /\ logs'[n].idx = idx
  /\ \E n \in (Len(logs) + 1)..Len(logs') :
       logs'[n].text = "started"
  /\ runs' # <<>> =>
       /\ InFlight(runs'[Len(runs')]).idx = idx
       /\ RowOf(scenarios', idx).status = "running"
  /\ ~cancelRef'

C36_Step ==
  /\ (StopStep /\ ~isRunning) =>
       (cancelRef' = cancelRef /\ logs' = logs /\ ~last'.acted)
  /\ (HandlerStep /\ last'.acted) =>
       FirstStarted(IF last'.op = "handleStart" THEN scenarios[1].idx
                    ELSE scenarios[last'.arg].idx)

\* C36: stopQueue called while no run is in progress sets no flag and logs
\* nothing, the flag is never set between runs, and every run that a
\* handler starts, also after a run that was asked to stop (during its
\* last scenario or an earlier one), starts its first scenario.
C36_NoLeak == [](~isRunning => ~cancelRef) /\ [][C36_Step]_vars

\* a run was asked to stop and ended, and the next run has its first
\* scenario in flight
C36_Witness ==
  /\ last.op \in {"handleStart", "handleRunScenario"} /\ last.acted
  /\ StopLogged(logs)
  /\ Len(runs) = 1 /\ ~cancelRef
  /\ RowOf(scenarios, InFlight(runs[1]).idx).status = "running"

\* ------------------------------------------------------------------------
\* The chain at the start of a run
\* ------------------------------------------------------------------------
\* no prepare scenario was dispatched in the run before the one in flight
NoPrepareBefore(run) ==
  \A k \in 1..run.index : run.snapshot[k].action # "prepare"

\* the scenario in flight is a complete with no merchant_prepare_id of its
\* own and without the correlation id that draws a random one
TakesPreset(run) ==
  /\ InFlight(run).action = "complete"
  /\ ExplicitEmpty(InFlight(run), run.scenarioReferences)
  /\ run.scenarioClickTransId # id26216
  /\ NoPrepareBefore(run)

C37_Step ==
  (Len(runs) = 0 /\ Len(runs') = 1)
    => /\ runs'[1].merchantPrepareIdOld = settings.presetMerchantPrepareId
       /\ runs'[1].merchantPrepareIdByClickTransId = EmptyMap

\* C37: every run starts with the preset prepare id of the settings (or the
\* empty text) as its last-known prepare id and with an empty map of
\* prepare ids; a complete scenario dispatched before any prepare of the
\* run was answered, with no explicit id and no hardcoded override, is sent
\* with the preset as merchant_prepare_id when the preset is not empty.
C37_StartsFromPreset ==
  /\ [](\A i \in 1..Len(runs) :
         (TakesPreset(runs[i])
          /\ runs[i].settings.presetMerchantPrepareId # <<>>)
           => runs[i].payload["merchant_prepare_id"]
                = Str(runs[i].settings.presetMerchantPrepareId))
  /\ [][C37_Step]_vars

\* a complete that follows only completes of its run is in flight with the
\* preset id, while a prepare of an earlier run has an id on its row
C37_Witness ==
  /\ Len(runs) = 1 /\ TakesPreset(runs[1])
  /\ runs[1].payload["merchant_prepare_id"] = Str(<<"9">>)
  /\ CapturedRows # {}

\* ------------------------------------------------------------------------
\* Requests that raise
\* ------------------------------------------------------------------------
\* the reply of the step makes sendScenarioRequest raise
RaisedReply ==
  last'.reply.net # "reply" \/ ~IsOk(last'.reply.status)

\* the reference table holds a null response for the correlation id
NullReference(run, id) ==
  id # <<>> =>
    /\ id \in DOMAIN run.scenarioReferences
    /\ run.scenarioReferences[id].response = RespNull

\* the row of idx holds the result of a raised request
RaisedRow(list, idx) ==
  HasRow(list, idx) =>
    /\ RowOf(list, idx).status = "error"
    /\ RowOf(list, idx).response = RespNull

\* the correlation id with which the scenario of the row idx was sent
SentId(list, idx) ==
  trim(FieldStr(RowOf(list, idx).requestPayload.f["click_trans_id"]))

C38_Step ==
  /\ (ResumeStep /\ Len(runs) = 1 /\ RaisedReply) =>
       /\ RaisedRow(scenarios', InFlight(runs[1]).idx)
       /\ Len(runs') = 1 =>
            /\ ChainOf(runs'[1]) = ChainOf(runs[1])
            /\ NullReference(runs'[1], runs[1].scenarioClickTransId)
  /\ (HandlerStep /\ last'.acted /\ Len(runs') = 1) =>
       \A k \in 1..runs'[1].index :
         /\ ChainOf(runs'[1]) = <<settings.presetMerchantPrepareId, EmptyMap>>
         /\ RaisedRow(scenarios', runs'[1].snapshot[k].idx)
         /\ NullReference(runs'[1],
                          SentId(scenarios', runs'[1].snapshot[k].idx))

\* C38: a scenario whose request raises (an empty URL, a failure of the
\* network, a reply outside 2xx) leaves the last-known prepare id and the
\* map of prepare ids of its run as they were, also when the body of the
\* reply held a merchant_prepare_id, and its result and its entry of the
\* reference table hold a null response.
C38_RaiseKeepsChain == [][C38_Step]_vars

\* a prepare was answered with status 500 and a merchant_prepare_id, and
\* the complete after it is in flight with the preset id
C38_Witness ==
  /\ Answered /\ ObjectReply /\ ~IsOk(last.reply.status)
  /\ Target.action = "prepare" /\ Target.response = RespNull
  /\ last.reply.body.f["merchant_prepare_id"] = Str(<<"4">>)
  /\ Len(runs) = 1 /\ Chained(runs[1])
  /\ runs[1].payload["merchant_prepare_id"] = Str(<<"9">>)

\* the first scenario of a run had no URL and the second one is in flight
C38_NoUrlWitness ==
  /\ last.op = "handleStart" /\ last.acted
  /\ Len(runs) = 1 /\ runs[1].index = 1
  /\ scenarios[1].status = "error" /\ scenarios[1].response = RespNull

\* ------------------------------------------------------------------------
\* The error message of a result
\* ------------------------------------------------------------------------
\* the message is a text with something in it: the fixed texts of runQueue
\* and of sendScenarioRequest, or the message of the response when it is
\* truthy
Worded(msg) ==
  /\ msg.kind \in {"urlEmpty", "network", "body", "http", "notJson",
                   "successFalse", "noCode", "mismatch"}
  /\ msg.kind = "successFalse" => Truthy(msg.text)

\* C39: every result that runQueue records has an errorMessage exactly
\* when its status is error: a success result has none, and an error
\* result has one that is not empty.
C39_MessageIffError ==
  \A i \in 1..Len(scenarios) :
    /\ scenarios[i].status = "success" => scenarios[i].errorMessage = NoMsg
    /\ scenarios[i].status = "error" =>
         (scenarios[i].errorMessage # NoMsg
          /\ Worded(scenarios[i].errorMessage))

\* a 2xx response with success false and no message was recorded with the
\* fixed text
C39_Witness ==
  /\ Answered /\ ObjectReply /\ IsOk(last.reply.status)
  /\ last.reply.body.f["success"] = Bool(FALSE)
  /\ last.reply.body.f["message"] = Undef
  /\ Target.status = "error"
  /\ Target.errorMessage.kind = "successFalse"
  /\ Target.errorMessage.text = SuccessFalseText

\* a response was recorded as a success
C39_SuccessWitness ==
  Answered /\ Target.status = "success" /\ Target.errorMessage = NoMsg

\* ------------------------------------------------------------------------
\* Redirects followed by the relay
\* ------------------------------------------------------------------------
\* the proxied call has been answered
Proxied == last.op = "proxy"

\* the answer is the response that ended the call: the first one that is
\* not a redirect with a Location, after a redirect followed for every
\* earlier POST
ReturnedFirstFinal ==
  /\ last.call.outcome = "returned" /\ last.response.readable
  /\ last.res.statusCode = last.response.status
  /\ last.res.finalUrl = last.call.currentUrl
  /\ \/ last.response.status \notin redirectStatusCodes
     \/ ~hasRedirectLocation(last.response.location)
  /\ Len(last.call.redirectChain) = last.call.posts - 1

\* the call raised after maxUpstreamRedirects redirects and was answered 502
TooManyRedirects ==
  /\ last.call.outcome = "tooManyRedirects"
  /\ last.res.statusCode = 502 /\ last.res.message = "tooManyRedirects"
  /\ last.call.posts = maxUpstreamRedirects
  /\ Len(last.call.redirectChain) = maxUpstreamRedirects

\* the call or the reading of the body raised something else and was
\* answered 502
OtherRaise ==
  /\ last.res.statusCode = 502
  /\ last.res.message \in {"fetchFailed", "invalidUrl", "bodyFailed"}

\* a call in progress waits for the answer to its latest POST
WithinLimit ==
  /\ last.call.posts <= maxUpstreamRedirects
  /\ last.op = "fetch" =>
       /\ last.call.posts = last.call.i + 1
       /\ Len(last.call.redirectChain) = last.call.i

\* C40 as stated: a proxied call issues at most 8 POST requests and ends
\* either with the first response that is not a redirect with a Location
\* or with the too-many-redirects error answered as 502.
C40_ReturnsOrTooMany ==
  /\ WithinLimit
  /\ Proxied => (ReturnedFirstFinal \/ TooManyRedirects)

\* C40: a proxied call issues at most 8 upstream POST requests, one for
\* each pass of the loop, also when the upstream redirects in a cycle, and
\* it ends with the first response that is not a redirect with a Location,
\* or with the too-many-redirects error after the eighth redirect, or with
\* another error (the fetch rejects, the Location is not a URL, the body
\* cannot be read); every error is answered as 502.
C40_EndsWithinLimit ==
  /\ WithinLimit
  /\ Proxied => (ReturnedFirstFinal \/ TooManyRedirects \/ OtherRaise)

\* the upstream sent the relay in a circle between two URLs until the
\* eighth redirect
C40_Witness ==
  /\ Proxied /\ TooManyRedirects
  /\ \A n \in 1..Len(last.call.redirectChain) :
       last.call.redirectChain[n] =
         IF n % 2 = 1 THEN RelayUrl("b", "/") ELSE RelayUrl("b", "/x")

\* a redirect with a followable status and a Location that is not a URL
\* ended the call
C40_InvalidLocation ==
  /\ Proxied /\ last.call.outcome = "invalidUrl"
  /\ last.response.status \in redirectStatusCodes

====
